---- MODULE Spec2Model ----
(***************************************************************************)
(* State-machine model of the pysonica service scaffold.                   *)
(*                                                                         *)
(*   SpecDb    DatabaseSessionManager (app/database/session.py): the       *)
(*             init/close lifecycle and the scoped session()/connect()     *)
(*             acquisitions of concurrently running tasks.                 *)
(*   SpecHttp  One ASGI exchange at a time through the stack create_app    *)
(*             builds (app/main.py): correlation id, security headers,     *)
(*             access log, catch-all exception middleware, typed exception *)
(*             handlers and the routed application.                        *)
(*   SpecHealth The readiness endpoint of create_health_router             *)
(*             (app/health/routes.py) over any list of conditions.         *)
(*   SpecConc  Several HTTP requests in flight on one worker and the log   *)
(*             context each of them binds (app/logging/middleware.py).     *)
(*   SpecRetry A call of an operation wrapped by retry_on_transient        *)
(*             (app/resilience/retry.py).                                  *)
(*   SpecSecurity A SecurityHeadersMiddleware constructed with any         *)
(*             arguments (app/security/middleware.py) and called.          *)
(***************************************************************************)
EXTENDS Naturals, Integers, Sequences, FiniteSets

\* ------------------------------------------------------------- bounds
MaxTasks == 2
MaxSessions == 2
MaxEngines == 2
MaxChunks == 1
MaxConditions == 3
MaxRequests == 2
MaxAttempts == 3
MaxDelay == 2
MaxWait == 1
MaxCustom == 1
MaxForwarded == 4

VARIABLES
    engine,         \* DatabaseSessionManager._engine (0 = None, else pool id)
    sessionmaker,   \* DatabaseSessionManager._sessionmaker (0 = None, else the pool it binds)
    engines,        \* number of pools create_async_engine has built so far
    disposed,       \* pools whose dispose() has completed
    disposing,      \* pool a suspended close() is awaiting dispose() of (0 = none)
    lastLifecycle,  \* most recent completed lifecycle call: "none", "init", "close"
    created,        \* number of AsyncSession objects the factory has produced
    closed,         \* number of AsyncSession.close() calls made
    task,           \* per task: position in session()/connect() and what it did
    isProduction,   \* settings.is_production, read by create_app
    scope,          \* ASGI scope of the exchange in progress
    hpc,            \* which component of the stack is running
    exc,            \* exception propagating up the stack (NoExc: none)
    emitted,        \* messages as the application and the catch-all sent them
    sent,           \* messages as they reached the server, after every send wrapper
    wrappers,       \* send wrappers installed for this exchange
    status_code,    \* AccessLogMiddleware.__call__'s local status_code (0: not set)
    accessLog,      \* access-log records emitted for this exchange
    ctx,            \* structlog contextvars of the handling context
    invoked,        \* per middleware: number of calls of its downstream app
    escaped,        \* exception that left the outermost middleware
    app,            \* what the routed application did in this exchange
    fault,          \* middleware component that raised in this exchange
    chunks,         \* body chunks streamed so far
    inbound,        \* header list of the request as the client sent it
    correlation_id, \* asgi_correlation_id's context variable of the handling context
    generated,      \* identifiers the correlation middleware has generated (mod 2)
    log,            \* log lines emitted during this exchange, as merge_contextvars saw them
    conditions,     \* create_health_router: __name__ of each readiness condition, in list order
    rpc,            \* position of the readiness handler
    idx,            \* readiness: index of the condition the loop is at
    results,        \* readiness: the local dict results
    ran,            \* readiness: conditions called in this request, with what they did
    response,       \* readiness: status and body of the response
    readyLog,       \* readiness: log lines of this request
    request,        \* concurrent requests: per request its position and its request id
    context,        \* concurrent requests: bindings of each contextvars context (0: the server's)
    issued,         \* concurrent requests: identifiers generated so far (mod 2)
    lines,          \* concurrent requests: log lines emitted, with the request that emitted each
    max_attempts,   \* retry_on_transient(max_attempts=...)
    max_delay_seconds, \* retry_on_transient(max_delay_seconds=...)
    plan,           \* the wrapped operation: how many of its first invocations fail, and how
    kpc,            \* position of the wrapped call
    attempt_number, \* RetryCallState.attempt_number
    calls,          \* invocations of the operation made by this call
    now,            \* seconds since the wrapped call began (RetryCallState.start_time)
    outcome,        \* RetryCallState.outcome: what the last invocation did
    outcome_timestamp, \* RetryCallState.outcome_timestamp, in seconds since the call began
    final,          \* what the wrapped call handed to its caller
    retry_on,       \* the exception types passed as retry_on
    invocations,    \* the moments at which the operation was invoked, in order
    content_security_policy,   \* SecurityHeadersMiddleware's constructor arguments
    strict_transport_security,
    custom_headers,
    raw_headers,    \* SecurityHeadersMiddleware._raw_headers
    mpc,            \* position of a call of a SecurityHeadersMiddleware instance
    mscope,         \* type of the scope it was called with
    outgoing,       \* the messages it has passed to the send it was given
    incoming,       \* the same messages as the downstream app sent them
    dep,            \* per request: position in get_db and the session it yielded
    made,           \* number of AsyncSession objects constructed for requests
    connOf,         \* per session: the connection it has checked out (0 = none)
    xscope,         \* ASGI scope handed to _client_ip
    ipc,            \* whether _client_ip has been called on it
    client_ip       \* what _client_ip returned

dbVars == <<engine, sessionmaker, engines, disposed, disposing, lastLifecycle,
            created, closed, task>>

httpVars == <<isProduction, scope, hpc, exc, emitted, sent, wrappers, status_code,
              accessLog, ctx, invoked, escaped, app, fault, chunks, inbound,
              correlation_id, generated, log>>

healthVars == <<conditions, rpc, idx, results, ran, response, readyLog>>

concVars == <<request, context, issued, lines>>

retryVars == <<max_attempts, max_delay_seconds, plan, kpc, attempt_number, calls,
               now, outcome, outcome_timestamp, final, retry_on, invocations>>

secVars == <<content_security_policy, strict_transport_security, custom_headers,
             raw_headers, mpc, mscope, outgoing, incoming>>

depVars == <<dep, made, connOf>>

ipVars == <<xscope, ipc, client_ip>>

vars == <<dbVars, httpVars, healthVars, concVars, retryVars, secVars, depVars, ipVars>>

\* What the session manager's operations leave alone, and what an exchange
\* leaves alone.
offDb == <<httpVars, healthVars, concVars, retryVars, secVars, depVars, ipVars>>
offHttp == <<dbVars, healthVars, concVars, retryVars, secVars, depVars, ipVars>>
offHealth == <<dbVars, httpVars, concVars, retryVars, secVars, depVars, ipVars>>
offConc == <<dbVars, httpVars, healthVars, retryVars, secVars, depVars, ipVars>>
offRetry == <<dbVars, httpVars, healthVars, concVars, secVars, depVars, ipVars>>
offSec == <<dbVars, httpVars, healthVars, concVars, retryVars, depVars, ipVars>>
offDep == <<httpVars, healthVars, concVars, retryVars, secVars, ipVars>>
offIp == <<dbVars, httpVars, healthVars, concVars, retryVars, secVars, depVars>>

Tasks == 1..MaxTasks

\* A task that is not inside any acquisition.
IdleTask ==
    [pc |-> "idle", op |-> "none", body |-> "none", commit |-> "none",
     calls |-> <<>>, exc |-> "none"]

\* Outcomes of one awaited session method: it returns, raises an ordinary
\* Exception, or the task is cancelled while suspended in it
\* (asyncio.CancelledError derives from BaseException, not Exception).
AwaitOutcomes == {"ok", "error", "cancel"}

\* ------------------------------------------------- DatabaseSessionManager

\* session.py:46-48
DbInit ==
    /\ engine = 0
    /\ sessionmaker = 0
    /\ engines = 0
    /\ disposed = {}
    /\ disposing = 0
    /\ lastLifecycle = "none"
    /\ created = 0
    /\ closed = 0
    /\ task = [t \in Tasks |-> IdleTask]

\* session.py:94-97: True when _check_init() raises RuntimeError.
NotInitialized == engine = 0 \/ sessionmaker = 0

\* session.py:50-85: init() builds a new pool and factory and overwrites both
\* handles, whatever they held before (it is synchronous: no suspension).
ManagerInit ==
    /\ engines < MaxEngines
    /\ engines' = engines + 1
    /\ engine' = engines + 1
    /\ sessionmaker' = engines + 1
    /\ lastLifecycle' = "init"
    /\ UNCHANGED <<offDb, disposed, disposing, created, closed, task>>

\* session.py:87-90: close() up to its suspension point.  With no pool the
\* call completes at once as a no-op; otherwise it awaits engine.dispose().
CloseBegin ==
    /\ disposing = 0
    /\ IF engine # 0
         THEN /\ disposing' = engine
              /\ UNCHANGED lastLifecycle
         ELSE /\ lastLifecycle' = "close"
              /\ UNCHANGED disposing
    /\ UNCHANGED <<offDb, engine, sessionmaker, engines, disposed, created, closed, task>>

\* close() that disposes the pool but forgets to reset the handles.
C4_MutantCloseEnd ==
    /\ disposing # 0
    /\ disposed' = disposed \cup {disposing}
    /\ disposing' = 0
    /\ lastLifecycle' = "close"
    /\ UNCHANGED <<offDb, engine, sessionmaker, engines, created, closed, task>>

\* close() that resets the pool handle and keeps the session factory.
C32_MutantCloseEnd ==
    /\ disposing # 0
    /\ disposed' = disposed \cup {disposing}
    /\ disposing' = 0
    /\ engine' = 0
    /\ lastLifecycle' = "close"
    /\ UNCHANGED <<offDb, sessionmaker, engines, created, closed, task>>

\* session.py:90-92: dispose() returned; both handles are reset to None.
CloseEnd ==
    /\ disposing # 0
    /\ disposed' = disposed \cup {disposing}
    /\ disposing' = 0
    /\ engine' = 0
    /\ sessionmaker' = 0
    /\ lastLifecycle' = "close"
    /\ UNCHANGED <<offDb, engines, created, closed, task>>

\* session.py:100-105: entering session().  _check_init() raises before any
\* session is built; otherwise the factory produces a fresh session.
SessionEnter(t) ==
    /\ task[t].pc = "idle"
    /\ IF NotInitialized
         THEN /\ task' = [task EXCEPT ![t] =
                    [IdleTask EXCEPT !.pc = "done", !.op = "session",
                                     !.exc = "NotInitialized"]]
              /\ UNCHANGED created
         ELSE /\ created < MaxSessions
              /\ created' = created + 1
              /\ task' = [task EXCEPT ![t] =
                    [IdleTask EXCEPT !.pc = "body", !.op = "session"]]
    /\ UNCHANGED <<offDb, engine, sessionmaker, engines, disposed, disposing,
                   lastLifecycle, closed>>

\* session.py:106-112: where the generator resumes once the body of the
\* "async with" block has ended with outcome o.  Normal completion falls
\* through to commit; "except Exception" takes an ordinary exception to
\* rollback; a cancellation matches no except clause and goes to finally.
AfterBody(o) ==
    CASE o = "ok" -> "commit"
      [] o = "error" -> "rollback"
      [] OTHER -> "close"

SessionBody(t, o) ==
    /\ task[t].pc = "body"
    /\ task' = [task EXCEPT ![t].pc = AfterBody(o),
                            ![t].body = o,
                            ![t].exc = CASE o = "ok" -> "none"
                                         [] o = "error" -> "Error"
                                         [] OTHER -> "Cancelled"]
    /\ UNCHANGED <<offDb, engine, sessionmaker, engines, disposed, disposing,
                   lastLifecycle, created, closed>>

\* session.py:108-111: where control goes after "await session.commit()".
AfterCommit(o) ==
    CASE o = "ok" -> "close"
      [] o = "error" -> "rollback"
      [] OTHER -> "close"

SessionCommit(t, o) ==
    /\ task[t].pc = "commit"
    /\ task' = [task EXCEPT ![t].pc = AfterCommit(o),
                            ![t].calls = Append(@, "commit"),
                            ![t].commit = o,
                            ![t].exc = CASE o = "ok" -> "none"
                                         [] o = "error" -> "Error"
                                         [] OTHER -> "Cancelled"]
    /\ UNCHANGED <<offDb, engine, sessionmaker, engines, disposed, disposing,
                   lastLifecycle, created, closed>>

\* A rollback that raises leaves the scope without reaching close().
C3_MutantAfterRollback(o) == IF o = "ok" THEN "close" ELSE "done"

\* session.py:109-113: "await session.rollback(); raise".  Whatever rollback
\* does, the finally clause runs next.
AfterRollback(o) == "close"

SessionRollback(t, o) ==
    /\ task[t].pc = "rollback"
    /\ task' = [task EXCEPT ![t].pc = AfterRollback(o),
                            ![t].calls = Append(@, "rollback"),
                            ![t].exc = CASE o = "ok" -> @
                                         [] o = "error" -> "Error"
                                         [] OTHER -> "Cancelled"]
    /\ UNCHANGED <<offDb, engine, sessionmaker, engines, disposed, disposing,
                   lastLifecycle, created, closed>>

\* session.py:112-113: "finally: await session.close()", then the scope is
\* left; exc is what propagates to the caller ("none": a normal exit).
SessionClose(t, o) ==
    /\ task[t].pc = "close"
    /\ closed' = closed + 1
    /\ task' = [task EXCEPT ![t].pc = "done",
                            ![t].calls = Append(@, "close"),
                            ![t].exc = CASE o = "ok" -> @
                                         [] o = "error" -> "Error"
                                         [] OTHER -> "Cancelled"]
    /\ UNCHANGED <<offDb, engine, sessionmaker, engines, disposed, disposing,
                   lastLifecycle, created>>

\* session.py:115-122: connect().  Same guard; the transaction itself is
\* engine.begin()'s business.
ConnectEnter(t) ==
    /\ task[t].pc = "idle"
    /\ task' = [task EXCEPT ![t] =
          IF NotInitialized
            THEN [IdleTask EXCEPT !.pc = "done", !.op = "connect",
                                  !.exc = "NotInitialized"]
            ELSE [IdleTask EXCEPT !.pc = "conn", !.op = "connect"]]
    /\ UNCHANGED <<offDb, engine, sessionmaker, engines, disposed, disposing,
                   lastLifecycle, created, closed>>

ConnectExit(t) ==
    /\ task[t].pc = "conn"
    /\ task' = [task EXCEPT ![t].pc = "done"]
    /\ UNCHANGED <<offDb, engine, sessionmaker, engines, disposed, disposing,
                   lastLifecycle, created, closed>>

\* session.py:124-129: the engine property.
EngineRead(t) ==
    /\ task[t].pc = "idle"
    /\ task' = [task EXCEPT ![t] =
          IF NotInitialized
            THEN [IdleTask EXCEPT !.pc = "done", !.op = "engine",
                                  !.exc = "NotInitialized"]
            ELSE [IdleTask EXCEPT !.pc = "done", !.op = "engine"]]
    /\ UNCHANGED <<offDb, engine, sessionmaker, engines, disposed, disposing,
                   lastLifecycle, created, closed>>

\* types.py:27-30 / main.py:59-63: the caller is finished with the scope and
\* the task is free to make its next acquisition.
TaskReturn(t) ==
    /\ task[t].pc = "done"
    /\ task' = [task EXCEPT ![t] = IdleTask]
    /\ UNCHANGED <<offDb, engine, sessionmaker, engines, disposed, disposing,
                   lastLifecycle, created, closed>>

DbNext ==
    \/ ManagerInit
    \/ CloseBegin
    \/ CloseEnd
    \/ \E t \in Tasks : SessionEnter(t)
    \/ \E t \in Tasks, o \in AwaitOutcomes : SessionBody(t, o)
    \/ \E t \in Tasks, o \in AwaitOutcomes : SessionCommit(t, o)
    \/ \E t \in Tasks, o \in AwaitOutcomes : SessionRollback(t, o)
    \/ \E t \in Tasks, o \in AwaitOutcomes : SessionClose(t, o)
    \/ \E t \in Tasks : ConnectEnter(t)
    \/ \E t \in Tasks : ConnectExit(t)
    \/ \E t \in Tasks : EngineRead(t)
    \/ \E t \in Tasks : TaskReturn(t)

\* ------------------------------------------------------- ASGI messages

None == "None"

NoExc == [cls |-> "none", type |-> "", msg |-> ""]

\* An exception that is none of DomainError, HTTPException and
\* RequestValidationError: an instance of Exception with a type and a message.
Unclassified(ty, m) == [cls |-> "Exception", type |-> ty, msg |-> m]

ExcTypes == {"RuntimeError", "KeyError"}
ExcMessages == {"boom", "db password is hunter2"}

NoBody == [kind |-> "none"]

StartMsg(status, headers) ==
    [type |-> "http.response.start", status |-> status, headers |-> headers,
     body |-> NoBody, more |-> FALSE]

BodyMsg(body, more) ==
    [type |-> "http.response.body", status |-> 0, headers |-> <<>>,
     body |-> body, more |-> more]

\* A message of a non-HTTP protocol (websocket.accept, lifespan.startup.complete).
OtherMsg(ty) ==
    [type |-> ty, status |-> 0, headers |-> <<>>, body |-> NoBody, more |-> FALSE]

\* starlette JSONResponse(status_code=..., content=...) called as an ASGI app:
\* one http.response.start and one http.response.body.
JSONResponse(status, content) ==
    << StartMsg(status, << <<"content-type", "application/json">> >>),
       BodyMsg(content, FALSE) >>

\* errors/schemas.py:12-27: ErrorResponse(...).model_dump()
ErrorResponse(detail, status, request_id) ==
    [detail |-> detail, status_code |-> status, request_id |-> request_id]

ScopeTypes == {"http", "websocket", "lifespan"}

\* A version-4 UUID, which the default validator of CorrelationIdMiddleware
\* accepts as inbound identifier; it accepts nothing else.
Uuid4Values == {"6f9619ff-8b86-4d01-b42d-00cf4fc964ff"}

\* Header lists a request may carry: no X-Request-Id, one that is no UUID,
\* one that is a version-4 UUID.
HeaderLists ==
    { <<>>,
      << <<"x-request-id", "req-1">> >>,
      << <<"x-request-id", "6f9619ff-8b86-4d01-b42d-00cf4fc964ff">> >> }

NoScope == [type |-> "none", headers |-> <<>>, scheme |-> ""]

\* The scheme of an ASGI scope: an HTTP exchange is served over plain HTTP
\* or over TLS, a websocket likewise; a lifespan scope has none.
Schemes(ty) ==
    CASE ty = "http" -> {"http", "https"}
      [] ty = "websocket" -> {"ws", "wss"}
      [] OTHER -> {""}

RECURSIVE ExtractHeader(_, _)
\* logging/middleware.py:73-79 (and Request.headers.get(name, "")): the value
\* of the first header called name, "" when there is none.
ExtractHeader(headers, name) ==
    IF headers = <<>> THEN ""
    ELSE IF Head(headers)[1] = name THEN Head(headers)[2]
    ELSE ExtractHeader(Tail(headers), name)

\* errors/handlers.py:48-50
GetRequestId == ExtractHeader(scope.headers, "x-request-id")

RECURSIVE SetHeaderFrom(_, _, _, _)
\* starlette MutableHeaders.__setitem__: the first header called name takes
\* the value v, further headers of that name are dropped, and the header is
\* appended when there was none.
SetHeaderFrom(headers, name, v, found) ==
    IF headers = <<>>
      THEN IF found THEN <<>> ELSE << <<name, v>> >>
    ELSE IF Head(headers)[1] = name
      THEN (IF found THEN <<>> ELSE << <<name, v>> >>)
             \o SetHeaderFrom(Tail(headers), name, v, TRUE)
    ELSE << Head(headers) >> \o SetHeaderFrom(Tail(headers), name, v, found)

SetHeader(headers, name, v) == SetHeaderFrom(headers, name, v, FALSE)

\* ------------------------------------------------------- correlation id
\* main.py:89: CorrelationIdMiddleware() with the defaults of the library:
\* header_name "X-Request-ID", update_request_header True, generator
\* uuid4().hex, validator is_valid_uuid4, transformer the identity.

\* The library handles HTTP and websocket scopes.
CorrelationApplies == scope.type \in {"http", "websocket"}

IsValidUuid4(v) == v \in Uuid4Values

\* uuid4().hex: a fresh identifier, different from the one generated before.
Generator(n) ==
    IF n = 0 THEN "0af7651916cd43dd8448eb211c80319c"
             ELSE "b7ad6b7169203331a3c1eb211c80319d"

\* The identifier of the exchange: the inbound value when it is a valid
\* UUID4, a generated one when the header is absent, empty or invalid.
IdValue(headers, n) ==
    LET header_value == ExtractHeader(headers, "x-request-id") IN
      IF header_value = "" \/ ~IsValidUuid4(header_value)
        THEN Generator(n) ELSE header_value

\* The request header list after the middleware: the header is set to the
\* identifier whenever that differs from the inbound value.
UpdateRequestHeader(headers, n) ==
    IF IdValue(headers, n) # ExtractHeader(headers, "x-request-id")
      THEN SetHeader(headers, "x-request-id", IdValue(headers, n))
      ELSE headers

\* handle_outgoing_request: http.response.start gets the identifier as
\* X-Request-ID and the header that exposes it.
HandleOutgoingRequest(m, id) ==
    IF m.type = "http.response.start" /\ id \notin {"None", ""}
      THEN [m EXCEPT !.headers =
              @ \o << <<"x-request-id", id>>,
                      <<"access-control-expose-headers", "X-Request-ID">> >>]
      ELSE m

\* ---------------------------------------------------------- log context

\* The access log binds nothing.
C18_MutantBindContextvars(c, request_id) == c

\* structlog.contextvars.clear_contextvars() followed by
\* bind_contextvars(request_id=...) (logging/middleware.py:43-46): whatever
\* the context held, it now holds this binding only.
BindContextvars(c, request_id) == [request_id |-> request_id]

\* logging/setup.py:34: merge_contextvars copies the bindings of the context
\* the statement runs in into the log line.
MergeContextvars(event, c) ==
    [event |-> event,
     request_id |-> IF "request_id" \in DOMAIN c THEN c["request_id"] ELSE "None"]

\* ------------------------------------------------------ security headers

\* security/middleware.py:16-23: _DEFAULT_HEADERS, a dict, kept as the list of
\* its items in insertion order.
DefaultHeaders ==
    << <<"X-Frame-Options", "DENY">>,
       <<"X-Content-Type-Options", "nosniff">>,
       <<"Referrer-Policy", "strict-origin-when-cross-origin">>,
       <<"Permissions-Policy", "geolocation=(), camera=(), microphone=()">>,
       <<"X-XSS-Protection", "0">>,
       <<"Cache-Control", "no-store">> >>

\* str.lower() on the header names that occur.
Lower(k) ==
    CASE k = "X-Frame-Options" -> "x-frame-options"
      [] k = "X-Content-Type-Options" -> "x-content-type-options"
      [] k = "Referrer-Policy" -> "referrer-policy"
      [] k = "Permissions-Policy" -> "permissions-policy"
      [] k = "X-XSS-Protection" -> "x-xss-protection"
      [] k = "Cache-Control" -> "cache-control"
      [] k = "Content-Security-Policy" -> "content-security-policy"
      [] k = "Strict-Transport-Security" -> "strict-transport-security"
      [] k = "X-Custom" -> "x-custom"
      [] OTHER -> k

\* d[key] = value on a dict: the item of that very key takes the value where
\* it stands, a new key is added at the end.
DictSet(d, key, value) ==
    IF \E i \in 1..Len(d) : d[i][1] = key
      THEN [i \in 1..Len(d) |-> IF d[i][1] = key THEN <<key, value>> ELSE d[i]]
      ELSE Append(d, <<key, value>>)

\* d.pop(key, None): the item of that very key goes, if there is one.
DictPop(d, key) == SelectSeq(d, LAMBDA item : item[1] # key)

RECURSIVE ApplyCustomHeaders(_, _)
\* security/middleware.py:54-59: each item of custom_headers is applied in
\* turn, a non-empty value by assignment and an empty one by pop.
ApplyCustomHeaders(d, custom) ==
    IF custom = <<>> THEN d
    ELSE LET key == Head(custom)[1]
             value == Head(custom)[2]
         IN ApplyCustomHeaders(
                IF value # "" THEN DictSet(d, key, value) ELSE DictPop(d, key),
                Tail(custom))

\* security/middleware.py:47-59: self._headers
BuildHeaders(csp, hsts, custom) ==
    LET withCsp == IF csp # ""
                     THEN DictSet(DefaultHeaders, "Content-Security-Policy", csp)
                     ELSE DefaultHeaders
        withHsts == IF hsts # ""
                      THEN DictSet(withCsp, "Strict-Transport-Security", hsts)
                      ELSE withCsp
    IN ApplyCustomHeaders(withHsts, custom)

\* security/middleware.py:61-63: self._raw_headers, the items with their
\* names in lower case.
EncodeHeaders(d) == [i \in 1..Len(d) |-> <<Lower(d[i][1]), d[i][2]>>]

\* main.py:83-88: the HSTS value create_app passes; the scope of the exchange
\* has no part in it.
StrictTransportSecurity ==
    IF isProduction THEN "max-age=31536000; includeSubDomains" ELSE ""

\* security/middleware.py:38-63: _raw_headers as create_app configures it
\* (default content_security_policy, no custom_headers).
RawHeaders ==
    EncodeHeaders(BuildHeaders("default-src 'self'", StrictTransportSecurity, <<>>))

\* ------------------------------------------------------- domain errors

DomainKinds ==
    {"DomainError", "NotFoundError", "ConflictError", "ValidationError",
     "PermissionDeniedError", "AuthenticationError"}

\* errors/exceptions.py:26,47,57,66,72,78: the class attribute status_code.
ClassStatus(kind) ==
    CASE kind = "NotFoundError" -> 404
      [] kind = "ConflictError" -> 409
      [] kind = "ValidationError" -> 422
      [] kind = "PermissionDeniedError" -> 403
      [] kind = "AuthenticationError" -> 401
      [] OTHER -> 500

\* errors/exceptions.py:27
ClassDetail == "An unexpected error occurred."

\* First positional argument of the constructor: detail, or the resource
\* name for NotFoundError.
PosArgs(kind) ==
    IF kind = "NotFoundError" THEN {None, "Order"}
    ELSE {None, "Something went wrong"}

\* Keyword arguments a caller may pass.
KwArgs ==
    { <<>>,
      [order_id |-> "abc-123"],
      [status_code |-> 400],
      [detail |-> "Gone"],
      [error_type |-> "Billing"] }

Without(kw, key) == [k \in (DOMAIN kw) \ {key} |-> kw[k]]

\* errors/exceptions.py:29-35: detail can be given by position or by keyword;
\* giving it both ways is refused by the call itself.
Constructible(kind, pos, kw) ==
    kind = "NotFoundError" \/ pos = None \/ "detail" \notin DOMAIN kw

\* errors/exceptions.py:29-51: DomainError.__init__ takes detail and
\* status_code as parameters of its own and keeps the other keywords in
\* extra; NotFoundError.__init__ takes the resource name, builds the detail
\* from it and keeps every keyword in extra.
NewDomainError(kind, pos, kw) ==
    IF kind = "NotFoundError"
      THEN [kind |-> kind,
            status_code |-> ClassStatus(kind),
            detail |-> (IF pos = None THEN "Resource" ELSE pos) \o " not found",
            extra |-> kw]
      ELSE [kind |-> kind,
            status_code |-> IF "status_code" \in DOMAIN kw
                              THEN kw["status_code"] ELSE ClassStatus(kind),
            detail |-> IF pos # None THEN pos
                       ELSE IF "detail" \in DOMAIN kw THEN kw["detail"]
                       ELSE ClassDetail,
            extra |-> Without(Without(kw, "status_code"), "detail")]

NoDomainError == [kind |-> "none", status_code |-> 0, detail |-> "", extra |-> <<>>]

\* What the routed application did in the exchange: the exception it raised,
\* for a domain error the instance and the arguments it was constructed
\* with, for a validation error the per-field errors.
NoApp ==
    [kind |-> "none", raised |-> NoExc, dom |-> NoDomainError,
     args |-> [pos |-> None, kw |-> <<>>], errors |-> <<>>]

\* ----------------------------------------------------- the send chain

\* The security wrapper passes every message as it is.
C11_MutantSendWithHeaders(m) == m

\* The security wrapper puts its headers in place of the handler's.
C35_MutantSendWithHeaders(m) ==
    IF m.type = "http.response.start"
      THEN [m EXCEPT !.headers = raw_headers]
      ELSE m

\* security/middleware.py:70-75: send_with_headers extends the header list of
\* http.response.start; every other message passes as it is.
SendWithHeaders(m) ==
    IF m.type = "http.response.start"
      THEN [m EXCEPT !.headers = @ \o raw_headers]
      ELSE m

\* logging/middleware.py:55: send_wrapper hands the message it was given to
\* the send it wraps.
SendWrapperPass(m) == m

\* A message as it leaves the stack: through the wrapper of the access log
\* and the security wrapper when they were installed for the exchange, then
\* through the wrapper of the correlation middleware, which is the
\* outermost one.
Through(m) ==
    LET logged == IF "log" \in wrappers THEN SendWrapperPass(m) ELSE m
        secured == IF "sec" \in wrappers THEN SendWithHeaders(logged) ELSE logged IN
      IF CorrelationApplies /\ invoked["corr"] = 1
        THEN HandleOutgoingRequest(secured, correlation_id)
        ELSE secured

RECURSIVE SendWrapper(_, _)
\* logging/middleware.py:51-55: send_wrapper notes the status of each
\* http.response.start that passes; cur is the value noted so far.
SendWrapper(ms, cur) ==
    IF ms = <<>> THEN cur
    ELSE SendWrapper(Tail(ms),
                     IF Head(ms).type = "http.response.start"
                       THEN Head(ms).status ELSE cur)

\* The application (or the catch-all) sends the messages ms down the chain
\* of wrappers it was given.
Deliver(ms) ==
    /\ emitted' = emitted \o ms
    /\ sent' = sent \o [i \in 1..Len(ms) |-> Through(ms[i])]
    /\ status_code' = IF "log" \in wrappers
                        THEN SendWrapper(ms, status_code) ELSE status_code

Layers == {"corr", "sec", "log", "catch"}

\* An exception raised by the code of a middleware component itself.
MiddlewareFault(layer) == Unclassified("MiddlewareFault", layer)

IsHttp == scope.type = "http"

\* ------------------------------------------------------------ the stack
\* main.py:79-89 and errors/handlers.py:40-45: add_middleware puts each new
\* component outside the ones added before, so an exchange passes
\* CorrelationIdMiddleware, SecurityHeadersMiddleware, AccessLogMiddleware,
\* UnhandledExceptionMiddleware and then the typed handlers and the router
\* (errors/middleware.py:11-15).

\* The components in the order create_app adds them: the catch-all
\* (main.py:79 calls register_exception_handlers, which adds it at
\* errors/handlers.py:45), AccessLogMiddleware (main.py:82),
\* SecurityHeadersMiddleware (main.py:83-88), CorrelationIdMiddleware
\* (main.py:89).
AddedMiddleware == << "catch", "log", "sec", "corr" >>

RECURSIVE Reverse(_)
Reverse(seq) ==
    IF seq = <<>> THEN <<>> ELSE Reverse(Tail(seq)) \o << Head(seq) >>

\* The component added first is the outermost one.
C31_MutantMiddlewareStack == AddedMiddleware

\* The stack from the outside in: add_middleware puts a component in front
\* of the ones added before it.
MiddlewareStack == Reverse(AddedMiddleware)

\* The place of a component in the stack.
IndexOf(layer) ==
    CHOOSE i \in 1..Len(MiddlewareStack) : MiddlewareStack[i] = layer

\* self.app of a component: the next component inwards, the typed handlers
\* and the router for the innermost one.
Downstream(layer) ==
    IF IndexOf(layer) < Len(MiddlewareStack)
      THEN MiddlewareStack[IndexOf(layer) + 1] ELSE "app"

\* The components with code after their call of self.app: the except
\* clause of the catch-all (errors/middleware.py:53-77) and the finally
\* clause of the access log (logging/middleware.py:59-70).
ReturnCode == {"catch", "log"}

\* Where control is after what is inside place i of the stack has returned
\* or raised: in the nearest component outside it that has code on the way
\* back, or out of the stack.
Back(i) ==
    LET outer == {j \in 1..(i - 1) : MiddlewareStack[j] \in ReturnCode} IN
      IF outer = {} THEN "end"
      ELSE MiddlewareStack[CHOOSE j \in outer : \A k \in outer : k <= j] \o "_ret"

Upstream(layer) == Back(IndexOf(layer))

\* The typed handlers and the router have returned or raised.
AppReturns == Back(Len(MiddlewareStack) + 1)

HttpInit ==
    /\ isProduction \in BOOLEAN
    /\ scope = NoScope
    /\ hpc = "idle"
    /\ exc = NoExc
    /\ emitted = <<>>
    /\ sent = <<>>
    /\ wrappers = {}
    /\ status_code = 0
    /\ accessLog = <<>>
    /\ ctx = <<>>
    /\ invoked = [l \in Layers |-> 0]
    /\ escaped = NoExc
    /\ app = NoApp
    /\ fault = "none"
    /\ chunks = 0
    /\ inbound = <<>>
    /\ correlation_id = None
    /\ generated = 0
    /\ log = <<>>

NoDeliver == UNCHANGED <<emitted, sent, status_code>>

\* The server calls the application with the scope of a new exchange.
BeginExchange(ty, hs, scheme) ==
    /\ hpc \in {"idle", "end"}
    /\ scope' = [type |-> ty, headers |-> hs, scheme |-> scheme]
    /\ hpc' = MiddlewareStack[1]
    /\ exc' = NoExc
    /\ emitted' = <<>>
    /\ sent' = <<>>
    /\ wrappers' = {}
    /\ status_code' = 0
    /\ accessLog' = <<>>
    /\ invoked' = [l \in Layers |-> 0]
    /\ escaped' = NoExc
    /\ app' = NoApp
    /\ fault' = "none"
    /\ chunks' = 0
    /\ inbound' = hs
    /\ log' = <<>>
    /\ UNCHANGED <<offHttp, isProduction, ctx, correlation_id, generated>>

\* A middleware component raises in its own code: the exception leaves
\* through the components outside it, none of which has an except clause.
RaiseFault(layer) ==
    /\ fault' = layer
    /\ exc' = MiddlewareFault(layer)
    /\ escaped' = MiddlewareFault(layer)
    /\ hpc' = "end"

\* main.py:89: CorrelationIdMiddleware, the outermost component: it passes
\* a lifespan scope through; otherwise it settles the identifier of the
\* exchange, writes it into the request headers and into its context
\* variable, and calls the downstream app with handle_outgoing_request.
CorrEnter(f) ==
    /\ hpc = "corr"
    /\ f => IsHttp
    /\ IF f
         THEN /\ RaiseFault("corr")
              /\ UNCHANGED <<invoked, scope, correlation_id, generated>>
         ELSE /\ invoked' = [invoked EXCEPT !["corr"] = @ + 1]
              /\ hpc' = Downstream("corr")
              /\ IF CorrelationApplies
                   THEN /\ scope' = [scope EXCEPT !.headers =
                                       UpdateRequestHeader(@, generated)]
                        /\ correlation_id' = IdValue(scope.headers, generated)
                        /\ generated' =
                             IF IdValue(scope.headers, generated) = Generator(generated)
                               THEN 1 - generated ELSE generated
                   ELSE UNCHANGED <<scope, correlation_id, generated>>
              /\ UNCHANGED <<exc, escaped, fault>>
    /\ NoDeliver
    /\ UNCHANGED <<offHttp, isProduction, wrappers, accessLog, ctx, app, chunks,
                   inbound, log>>

\* security/middleware.py:66
SecurityApplies == scope.type = "http"

\* security/middleware.py:65-77: pass a non-HTTP scope through; otherwise
\* call the downstream app with send_with_headers in place of send.
SecEnter(f) ==
    /\ hpc = "sec"
    /\ f => SecurityApplies
    /\ IF f
         THEN RaiseFault("sec") /\ UNCHANGED <<invoked, wrappers>>
         ELSE /\ invoked' = [invoked EXCEPT !["sec"] = @ + 1]
              /\ wrappers' = IF SecurityApplies THEN wrappers \cup {"sec"} ELSE wrappers
              /\ hpc' = Downstream("sec")
              /\ UNCHANGED <<exc, escaped, fault>>
    /\ NoDeliver
    /\ UNCHANGED <<offHttp, isProduction, scope, accessLog, ctx, app, chunks,
                   inbound, correlation_id, generated, log>>

\* logging/middleware.py:39
AccessLogApplies == scope.type = "http"

\* logging/middleware.py:38-58: pass a non-HTTP scope through; otherwise
\* clear and bind the log context, preset status_code to 500 and call the
\* downstream app with send_wrapper.  A failure of the binding happens
\* before the try block, so no access-log record is written for it.
LogEnter(f) ==
    /\ hpc = "log"
    /\ f => AccessLogApplies
    /\ IF f
         THEN /\ RaiseFault("log")
              /\ UNCHANGED <<invoked, wrappers, ctx, status_code>>
         ELSE /\ invoked' = [invoked EXCEPT !["log"] = @ + 1]
              /\ hpc' = Downstream("log")
              /\ IF AccessLogApplies
                   THEN /\ ctx' = BindContextvars(ctx,
                                     ExtractHeader(scope.headers, "x-request-id"))
                        /\ status_code' = 500
                        /\ wrappers' = wrappers \cup {"log"}
                   ELSE UNCHANGED <<ctx, status_code, wrappers>>
              /\ UNCHANGED <<exc, escaped, fault>>
    /\ UNCHANGED <<offHttp, isProduction, scope, emitted, sent, accessLog, app, chunks,
                   inbound, correlation_id, generated, log>>

\* errors/middleware.py:47-52: both branches call the downstream app once,
\* with the scope, receive and send the middleware was given.
CatchEnter ==
    /\ hpc = "catch"
    /\ invoked' = [invoked EXCEPT !["catch"] = @ + 1]
    /\ hpc' = Downstream("catch")
    /\ NoDeliver
    /\ UNCHANGED <<offHttp, isProduction, scope, exc, wrappers, accessLog, ctx, escaped,
                   app, fault, chunks, inbound, correlation_id, generated, log>>

\* ---------------------------------------------- the routed application

AppFrame == UNCHANGED <<offHttp, isProduction, scope, wrappers, accessLog, ctx, invoked,
                        escaped, fault, inbound, correlation_id, generated>>

\* A log statement of the application: the line is what merge_contextvars
\* makes of it in the handling context.
Emit(event) == log' = Append(log, MergeContextvars(event, ctx))

\* A route handler returns and its response is sent.
AppOk ==
    /\ hpc = "app" /\ IsHttp
    /\ app' = [NoApp EXCEPT !.kind = "ok"]
    /\ Deliver(JSONResponse(200, [status |-> "alive"]))
    /\ hpc' = AppReturns
    /\ UNCHANGED <<exc, chunks, log>>
    /\ AppFrame

\* health/routes.py:54-83 behind the stack: GET /health/ready with one
\* condition that raises; the handler logs readiness_check_failed and answers
\* 503.
AppNotReady ==
    /\ hpc = "app" /\ IsHttp
    /\ app' = [NoApp EXCEPT !.kind = "not_ready"]
    /\ Emit("readiness_check_failed")
    /\ Deliver(JSONResponse(503, [status |-> "not_ready",
                                  checks |-> [_is_db_online |-> FALSE]]))
    /\ hpc' = AppReturns
    /\ UNCHANGED <<exc, chunks>>
    /\ AppFrame

\* errors/handlers.py:58-64: logger.warning is called with the keywords
\* error_type, detail and status_code and with **exc.extra; a key of extra
\* that repeats one of them makes the call itself raise TypeError.
LoggerKeywords == {"error_type", "detail", "status_code"}

LogCallCollides(e) == (DOMAIN e.extra) \cap LoggerKeywords # {}

\* errors/handlers.py:65-70
DomainErrorResponse(e) ==
    JSONResponse(e.status_code, ErrorResponse(e.detail, e.status_code, GetRequestId))

\* errors/handlers.py:53-70: a route handler raises a DomainError and
\* ExceptionMiddleware calls _handle_domain_error with it.
AppDomainError(kind, pos, kw) ==
    /\ hpc = "app" /\ IsHttp
    /\ Constructible(kind, pos, kw)
    /\ LET e == NewDomainError(kind, pos, kw) IN
         /\ app' = [NoApp EXCEPT !.kind = "domain", !.dom = e,
                                 !.args = [pos |-> pos, kw |-> kw]]
         /\ IF LogCallCollides(e)
              THEN /\ exc' = Unclassified("TypeError", "multiple values for keyword")
                   /\ NoDeliver
                   /\ UNCHANGED log
              ELSE /\ Emit("domain_error")
                   /\ Deliver(DomainErrorResponse(e))
                   /\ UNCHANGED exc
    /\ hpc' = AppReturns
    /\ UNCHANGED chunks
    /\ AppFrame

\* Status and detail of the HTTPException the router raises.
RoutingErrors == { <<404, "Not Found">>, <<405, "Method Not Allowed">> }

\* errors/handlers.py:73-84
HttpErrorResponse(status, detail) ==
    JSONResponse(status, ErrorResponse(detail, status, GetRequestId))

AppHttpError(status, detail) ==
    /\ hpc = "app" /\ IsHttp
    /\ app' = [NoApp EXCEPT !.kind = "routing"]
    /\ Deliver(HttpErrorResponse(status, detail))
    /\ hpc' = AppReturns
    /\ UNCHANGED <<exc, chunks, log>>
    /\ AppFrame

\* exc.errors() of a RequestValidationError: the per-field errors.
FieldErrors ==
    { << "body.name: Field required" >>,
      << "query.limit: Input should be a valid integer" >>,
      << "body.name: Field required", "body.age: Input should be greater than 0" >> }

\* The per-field errors are the detail of the response.
C26_MutantValidationErrorResponse(errs) ==
    JSONResponse(422, ErrorResponse(errs, 422, GetRequestId))

\* errors/handlers.py:93-98: the response is built from constants and the
\* request id; exc.errors() goes to the logger only (line 92).
ValidationErrorResponse(errs) ==
    JSONResponse(422, ErrorResponse("Request validation failed", 422, GetRequestId))

\* errors/handlers.py:87-98: the request does not fit the route's parameters
\* and ExceptionMiddleware calls _handle_validation_error.
AppValidationError(errs) ==
    /\ hpc = "app" /\ IsHttp
    /\ app' = [NoApp EXCEPT !.kind = "validation", !.errors = errs]
    /\ Emit("validation_error")
    /\ Deliver(ValidationErrorResponse(errs))
    /\ hpc' = AppReturns
    /\ UNCHANGED <<exc, chunks>>
    /\ AppFrame

\* A route handler raises an exception no typed handler is registered for:
\* ExceptionMiddleware lets it through (errors/handlers.py:40-42).
AppUnclassified(ty, m) ==
    /\ hpc = "app" /\ IsHttp
    /\ app' = [NoApp EXCEPT !.kind = "unclassified", !.raised = Unclassified(ty, m)]
    /\ exc' = Unclassified(ty, m)
    /\ hpc' = AppReturns
    /\ NoDeliver
    /\ UNCHANGED <<chunks, log>>
    /\ AppFrame

\* A route handler returns a streamed response, which starts.
AppStreamStart ==
    /\ hpc = "app" /\ IsHttp
    /\ app' = [NoApp EXCEPT !.kind = "stream"]
    /\ Deliver(<< StartMsg(200, <<>>) >>)
    /\ hpc' = "streaming"
    /\ UNCHANGED <<exc, chunks, log>>
    /\ AppFrame

AppStreamChunk ==
    /\ hpc = "streaming"
    /\ chunks < MaxChunks
    /\ chunks' = chunks + 1
    /\ Deliver(<< BodyMsg([chunk |-> chunks + 1], TRUE) >>)
    /\ UNCHANGED <<hpc, exc, app, log>>
    /\ AppFrame

AppStreamEnd ==
    /\ hpc = "streaming"
    /\ Deliver(<< BodyMsg(NoBody, FALSE) >>)
    /\ hpc' = AppReturns
    /\ UNCHANGED <<exc, app, chunks, log>>
    /\ AppFrame

\* The body iterator of a started streamed response raises.
AppStreamFail(ty, m) ==
    /\ hpc = "streaming"
    /\ app' = [NoApp EXCEPT !.kind = "stream_failed", !.raised = Unclassified(ty, m)]
    /\ exc' = Unclassified(ty, m)
    /\ hpc' = AppReturns
    /\ NoDeliver
    /\ UNCHANGED <<chunks, log>>
    /\ AppFrame

\* A websocket or lifespan exchange: the application sends a message of that
\* protocol and then returns or raises.
AppOther(raises) ==
    /\ hpc = "app" /\ ~IsHttp
    /\ Deliver(<< OtherMsg(IF scope.type = "websocket"
                             THEN "websocket.accept"
                             ELSE "lifespan.startup.complete") >>)
    /\ app' = [NoApp EXCEPT !.kind = "other",
                            !.raised = IF raises
                                         THEN Unclassified("RuntimeError", "boom")
                                         ELSE NoExc]
    /\ exc' = IF raises THEN Unclassified("RuntimeError", "boom") ELSE NoExc
    /\ hpc' = AppReturns
    /\ UNCHANGED <<chunks, log>>
    /\ AppFrame

\* ------------------------------------------------------ the way back up

\* The scope check of the catch-all is missing.
C10_MutantCatchAllApplies == TRUE

\* errors/middleware.py:47
CatchAllApplies == scope.type = "http"

\* The catch-all answers with str(exc).
C5_MutantCatchAllDetail(e) == e.msg

\* errors/middleware.py:68-72: the detail of the catch-all body is a literal.
CatchAllDetail(e) == "Internal server error"

\* errors/middleware.py:53-77
CatchAllResponse(e) ==
    JSONResponse(500, ErrorResponse(CatchAllDetail(e), 500, GetRequestId))

\* errors/middleware.py:47-77: downstream has returned or raised.  For an
\* HTTP scope an Exception is logged as unhandled_error (a failure of the
\* logger call, logFails, is passed over) and turned into the 500 response,
\* which is sent with the send the middleware was given, whatever was sent
\* before; for any other scope the exception goes on.
\* The exception of the logger call is not caught.
C25_MutantLoggingGuard(logFails) ==
    IF logFails THEN Unclassified("ValueError", "I/O operation on closed file") ELSE NoExc

\* errors/middleware.py:59-66: try: logger.exception(...) except Exception:
\* pass.  What is pending after the statement: nothing, whether the logger
\* call raised (logFails) or not.
LoggingGuard(logFails) == NoExc

CatchReturn(logFails) ==
    /\ hpc = "catch_ret"
    /\ logFails => (CatchAllApplies /\ exc # NoExc)
    /\ IF CatchAllApplies /\ exc # NoExc
         THEN /\ IF logFails THEN UNCHANGED log ELSE Emit("unhandled_error")
              /\ IF LoggingGuard(logFails) = NoExc
                   THEN /\ Deliver(CatchAllResponse(exc))
                        /\ exc' = NoExc
                   ELSE /\ NoDeliver
                        /\ exc' = LoggingGuard(logFails)
         ELSE /\ NoDeliver
              /\ UNCHANGED <<exc, log>>
    /\ hpc' = Upstream("catch")
    /\ UNCHANGED <<offHttp, isProduction, scope, wrappers, accessLog, ctx, invoked,
                   escaped, app, fault, chunks, inbound, correlation_id, generated>>

\* logging/middleware.py:57-70: the finally clause writes the access-log
\* record and a pending exception goes on; when the logger call itself
\* raises, that exception leaves instead.  Security headers and correlation
\* id have no code on the way back.
LogReturn(f) ==
    /\ hpc = "log_ret"
    /\ f => AccessLogApplies
    /\ IF AccessLogApplies
         THEN IF f
                THEN /\ fault' = "log"
                     /\ exc' = MiddlewareFault("log")
                     /\ UNCHANGED <<accessLog, log>>
                ELSE /\ accessLog' = Append(accessLog, [status_code |-> status_code])
                     /\ Emit("request")
                     /\ UNCHANGED <<fault, exc>>
         ELSE UNCHANGED <<accessLog, fault, exc, log>>
    /\ escaped' = exc'
    /\ hpc' = Upstream("log")
    /\ NoDeliver
    /\ UNCHANGED <<offHttp, isProduction, scope, wrappers, ctx, invoked, app, chunks,
                   inbound, correlation_id, generated>>

HttpNext ==
    \/ \E ty \in ScopeTypes, hs \in HeaderLists :
         \E scheme \in Schemes(ty) : BeginExchange(ty, hs, scheme)
    \/ \E f \in BOOLEAN : CorrEnter(f)
    \/ \E f \in BOOLEAN : SecEnter(f)
    \/ \E f \in BOOLEAN : LogEnter(f)
    \/ CatchEnter
    \/ AppOk
    \/ AppNotReady
    \/ \E kind \in DomainKinds :
         \E pos \in PosArgs(kind), kw \in KwArgs : AppDomainError(kind, pos, kw)
    \/ \E r \in RoutingErrors : AppHttpError(r[1], r[2])
    \/ \E errs \in FieldErrors : AppValidationError(errs)
    \/ \E ty \in ExcTypes, m \in ExcMessages : AppUnclassified(ty, m)
    \/ AppStreamStart
    \/ AppStreamChunk
    \/ AppStreamEnd
    \/ \E ty \in ExcTypes, m \in ExcMessages : AppStreamFail(ty, m)
    \/ \E raises \in BOOLEAN : AppOther(raises)
    \/ \E logFails \in BOOLEAN : CatchReturn(logFails)
    \/ \E f \in BOOLEAN : LogReturn(f)

\* ------------------------------------------------------ readiness probe
\* health/routes.py:34-85

\* health/routes.py:31
CheckTimeout == 5

\* __name__ of the callables registered as conditions; two conditions may
\* have the same one (two closures of one factory, two lambdas).
ConditionNames == {"_is_db_online", "check"}

ConditionLists ==
    UNION {[1..n -> ConditionNames] : n \in 0..MaxConditions}

\* What a condition does when called: it returns true or false or raises an
\* Exception, after so many seconds.
CheckResults == {"true", "false", "raise"}
CheckDurations == {1, 9}

\* health/routes.py:61-64: asyncio.wait_for(condition(), timeout) raises
\* TimeoutError when the condition is still running after timeout seconds,
\* else it returns or raises what the condition does.
WaitFor(result, duration, timeout) ==
    IF duration > timeout THEN "timeout" ELSE result

\* The except clause has nothing for exceptions of the condition.
C13_MutantCaught(got) == got = "timeout"

\* health/routes.py:65,72: except TimeoutError, except Exception.
Caught(got) == got \in {"timeout", "raise"}

\* health/routes.py:61,71,74: the value stored under the condition's name.
Recorded(got) == got = "true"

\* results[name] = value
SetItem(d, name, value) ==
    [n \in (DOMAIN d) \cup {name} |-> IF n = name THEN value ELSE d[n]]

\* health/routes.py:76: all(results.values()) if results else True
Healthy(d) == IF DOMAIN d = {} THEN TRUE ELSE \A n \in DOMAIN d : d[n]

NoResponse == [status |-> 0, body |-> <<>>]

\* create_health_router(ready_conditions=cs): no request has been made.
HealthInit(cs) ==
    /\ conditions = cs
    /\ rpc = "idle"
    /\ idx = 0
    /\ results = <<>>
    /\ ran = <<>>
    /\ response = NoResponse
    /\ readyLog = <<>>

\* health/routes.py:55-57: a request for /health/ready reaches the handler.
ReadinessBegin ==
    /\ rpc \in {"idle", "done", "raised"}
    /\ rpc' = "loop"
    /\ idx' = 1
    /\ results' = <<>>
    /\ ran' = <<>>
    /\ response' = NoResponse
    /\ readyLog' = <<>>
    /\ UNCHANGED <<offHealth, conditions>>

\* health/routes.py:58-74: one turn of the loop.  The condition is called
\* under wait_for; its value is stored, or False after a logged timeout or
\* exception.  An exception no except clause takes leaves the handler.
RunCondition(result, duration) ==
    /\ rpc = "loop"
    /\ idx <= Len(conditions)
    /\ LET name == conditions[idx]
           got == WaitFor(result, duration, CheckTimeout)
       IN /\ ran' = Append(ran, [index |-> idx, name |-> name, outcome |-> got])
          /\ IF got \in {"true", "false"} \/ Caught(got)
               THEN /\ results' = SetItem(results, name, Recorded(got))
                    /\ idx' = idx + 1
                    /\ UNCHANGED rpc
               ELSE /\ rpc' = "raised"
                    /\ UNCHANGED <<results, idx>>
          /\ readyLog' =
               IF got = "timeout" /\ Caught(got)
                 THEN Append(readyLog, [event |-> "readiness_check_timeout", check |-> name])
               ELSE IF got = "raise" /\ Caught(got)
                 THEN Append(readyLog, [event |-> "readiness_check_failed", check |-> name])
               ELSE readyLog
    /\ UNCHANGED <<offHealth, conditions, response>>

\* health/routes.py:76-83: the loop is over; status and body of the answer.
ReadinessRespond ==
    /\ rpc = "loop"
    /\ idx > Len(conditions)
    /\ response' =
         [status |-> IF Healthy(results) THEN 200 ELSE 503,
          body |-> [status |-> IF Healthy(results) THEN "ready" ELSE "not_ready",
                    checks |-> results]]
    /\ rpc' = "done"
    /\ UNCHANGED <<offHealth, conditions, idx, results, ran, readyLog>>

\* What "SELECT 1" does on a manager that is initialized: it succeeds, or
\* the database is down and it raises.
ProbeResults == {"true", "raise"}

\* _check_init() is left out of the condition.
C38_MutantIsDbOnline(probe) == probe

\* main.py:59-63 with session.py:99-102: _is_db_online enters
\* session_manager.session(), which raises RuntimeError on a manager that is
\* not initialized; otherwise it executes SELECT 1 and returns True.
IsDbOnline(probe) == IF NotInitialized THEN "raise" ELSE probe

\* _check_init() raises before the condition suspends, so no time passes.
IsDbOnlineDuration(duration) == IF NotInitialized THEN 0 ELSE duration

\* main.py:91: the readiness endpoint of create_app has the one condition
\* _is_db_online; a turn of the loop runs it on the session manager.
RunDbCondition(probe, duration) ==
    RunCondition(IsDbOnline(probe), IsDbOnlineDuration(duration))

\* The readiness endpoint of the application while the lifespan initializes
\* and closes the session manager (main.py:39-44, 55).
ReadyNext ==
    \/ ManagerInit
    \/ CloseBegin
    \/ CloseEnd
    \/ ReadinessBegin
    \/ \E probe \in ProbeResults, duration \in CheckDurations :
         RunDbCondition(probe, duration)
    \/ ReadinessRespond

HealthNext ==
    \/ ReadinessBegin
    \/ \E result \in CheckResults, duration \in CheckDurations :
         RunCondition(result, duration)
    \/ ReadinessRespond

\* -------------------------------------------------- concurrent requests
\* Several HTTP requests in flight on one worker: the server runs each in a
\* task of its own and the tasks interleave wherever one of them awaits.

Requests == 1..MaxRequests

NoRequest == [pc |-> "new", request_id |-> ""]

\* Every request runs in the context of the server.
C15_MutantCurrentContext(r) == 0

\* logging/middleware.py:43-46 and logging/setup.py:34: structlog keeps its
\* bindings in context variables; the context a statement of request r runs
\* in is that of r's task, a copy of the server's context made when the task
\* was created.
CurrentContext(r) == r

\* Requests that have bound their request id and have not finished.
InFlight == {q \in Requests : request[q].pc \in {"app", "ret"}}

\* The line a log statement of request r produces.
LineOf(r, event) ==
    [req |-> r,
     event |-> event,
     request_id |-> MergeContextvars(event, context[CurrentContext(r)]).request_id,
     during |-> InFlight \ {r}]

ConcInit ==
    /\ request = [r \in Requests |-> NoRequest]
    /\ context = [c \in 0..MaxRequests |-> <<>>]
    /\ issued = 0
    /\ lines = {}

\* The server starts the task of request r and the request passes the
\* correlation middleware (main.py:89), which leaves the identifier of the
\* exchange in the x-request-id request header.
ConcAccept(r, hs) ==
    /\ request[r].pc = "new"
    /\ request' = [request EXCEPT ![r] =
         [pc |-> "log",
          request_id |-> ExtractHeader(UpdateRequestHeader(hs, issued), "x-request-id")]]
    /\ issued' = IF IdValue(hs, issued) = Generator(issued) THEN 1 - issued ELSE issued
    /\ context' = [context EXCEPT ![CurrentContext(r)] = context[0]]
    /\ UNCHANGED <<offConc, lines>>

\* logging/middleware.py:43-46
ConcBind(r) ==
    /\ request[r].pc = "log"
    /\ context' = [context EXCEPT ![CurrentContext(r)] =
                     BindContextvars(@, request[r].request_id)]
    /\ request' = [request EXCEPT ![r].pc = "app"]
    /\ UNCHANGED <<offConc, issued, lines>>

\* The handler or the error pipeline logs a line for request r
\* (errors/handlers.py:58,92, errors/middleware.py:59, health/routes.py:66,73).
ConcHandle(r, event) ==
    /\ request[r].pc = "app"
    /\ lines' = lines \cup {LineOf(r, event)}
    /\ request' = [request EXCEPT ![r].pc = "ret"]
    /\ UNCHANGED <<offConc, context, issued>>

\* logging/middleware.py:61-70: the access-log record of request r.
ConcFinish(r) ==
    /\ request[r].pc = "ret"
    /\ lines' = lines \cup {LineOf(r, "request")}
    /\ request' = [request EXCEPT ![r].pc = "done"]
    /\ UNCHANGED <<offConc, context, issued>>

PipelineEvents == {"domain_error", "validation_error", "unhandled_error"}

ConcNext ==
    \/ \E r \in Requests, hs \in HeaderLists : ConcAccept(r, hs)
    \/ \E r \in Requests : ConcBind(r)
    \/ \E r \in Requests, event \in PipelineEvents : ConcHandle(r, event)
    \/ \E r \in Requests : ConcFinish(r)

\* ---------------------------------------------------------------- retry
\* resilience/retry.py:39-65: tenacity.retry with wait_random_exponential,
\* stop_after_attempt | stop_after_delay, retry_if_exception_type,
\* reraise=True.

\* resilience/retry.py:45: the default retry_on.
RetryOn == {"TransientError"}

\* What may be passed as retry_on: one type, or a tuple of types.
RetryOnChoices == {RetryOn, {"ConnectionError"}, {"TransientError", "ConnectionError"}}

\* Exception types the wrapped operation may raise.
OperationErrors == {"TransientError", "ValueError", "ConnectionError",
                    "ConnectionResetError"}

\* The classes an exception type is an instance of: itself and its bases.
\* TransientError derives from Exception (resilience/retry.py:31); the
\* others are Python's built-in hierarchy.
Mro(t) ==
    CASE t = "TransientError" -> {"TransientError", "Exception"}
      [] t = "ValueError" -> {"ValueError", "Exception"}
      [] t = "ConnectionError" -> {"ConnectionError", "OSError", "Exception"}
      [] t = "ConnectionResetError" ->
            {"ConnectionResetError", "ConnectionError", "OSError", "Exception"}
      [] OTHER -> {t}

IsInstance(t, c) == c \in Mro(t)

\* The wrapped operation fails on its first `failures` invocations with
\* `error` and returns "ok" from then on; MaxAttempts + 1 failures are more
\* than any call can see.
Plans == [failures : 0..(MaxAttempts + 1), error : OperationErrors]

\* Seconds one invocation of the operation takes.
AttemptDurations == {0, 1}

NoOutcome == [failed |-> FALSE, type |-> "none", invocation |-> 0, wrapped |-> FALSE]

\* What invocation number n of the operation does under the plan p.
Invoke(p, n) ==
    IF n <= p.failures
      THEN [failed |-> TRUE, type |-> p.error, invocation |-> n, wrapped |-> FALSE]
      ELSE [failed |-> FALSE, type |-> "ok", invocation |-> n, wrapped |-> FALSE]

\* No failure is taken for retryable.
C19_MutantRetryIfExceptionType(o) == FALSE

\* Every failure is taken for retryable.
C21_MutantRetryIfExceptionType(o) == o.failed

\* resilience/retry.py:61: retry_if_exception_type(retry_on)
RetryIfExceptionType(o) == o.failed /\ \E c \in retry_on : IsInstance(o.type, c)

\* tenacity stop_after_attempt: attempt_number >= max_attempt_number
StopAfterAttempt(n, limit) == n >= limit

\* tenacity stop_after_delay: seconds_since_start >= max_delay
StopAfterDelay(seconds, limit) == seconds >= limit

\* resilience/retry.py:60
Stop(n, seconds) ==
    StopAfterAttempt(n, max_attempts) \/ StopAfterDelay(seconds, max_delay_seconds)

\* The failure of the last invocation reaches the caller inside a RetryError.
C20_MutantReraise == FALSE

\* resilience/retry.py:63
Reraise == TRUE

\* tenacity RetryError(last_attempt)
RetryError(o) == [o EXCEPT !.wrapped = TRUE]

\* resilience/retry.py:59, with wait_multiplier 1 and wait_max MaxWait: the
\* upper end of the interval the wait after attempt n is drawn from.
WaitHigh(n) == IF 2 ^ (n - 1) < MaxWait THEN 2 ^ (n - 1) ELSE MaxWait

\* A decorated operation that has not been called.
RetryInit(attempts, delay, p, types) ==
    /\ max_attempts = attempts
    /\ retry_on = types
    /\ invocations = << >>
    /\ max_delay_seconds = delay
    /\ plan = p
    /\ kpc = "idle"
    /\ attempt_number = 0
    /\ calls = 0
    /\ now = 0
    /\ outcome = NoOutcome
    /\ outcome_timestamp = 0
    /\ final = NoOutcome

\* The caller calls the wrapped operation: a RetryCallState is made.
RetryCall ==
    /\ kpc = "idle"
    /\ kpc' = "attempt"
    /\ attempt_number' = 1
    /\ UNCHANGED <<offRetry, max_attempts, max_delay_seconds, plan, calls, now,
                   outcome, outcome_timestamp, final, retry_on, invocations>>

\* tenacity DoAttempt: the operation is invoked and what it does is kept
\* with the time it ended.
Attempt(d) ==
    /\ kpc = "attempt"
    /\ calls' = calls + 1
    /\ invocations' = Append(invocations, now)
    /\ now' = now + d
    /\ outcome' = Invoke(plan, calls + 1)
    /\ outcome_timestamp' = now + d
    /\ kpc' = "iter"
    /\ UNCHANGED <<offRetry, max_attempts, max_delay_seconds, plan, attempt_number,
                   final, retry_on>>

\* tenacity iter(): an outcome that is not retryable goes to the caller as it
\* is; a retryable one ends the call when a stop condition holds, with the
\* last failure itself because reraise is set; otherwise the call sleeps for
\* `wait` seconds and the attempt number goes up.
Iter(wait) ==
    /\ kpc = "iter"
    /\ wait \in 0..WaitHigh(attempt_number)
    /\ IF ~RetryIfExceptionType(outcome)
         THEN /\ wait = 0
              /\ final' = outcome
              /\ kpc' = IF outcome.failed THEN "raised" ELSE "returned"
              /\ UNCHANGED <<attempt_number, now>>
       ELSE IF Stop(attempt_number, outcome_timestamp)
         THEN /\ wait = 0
              /\ final' = IF Reraise THEN outcome ELSE RetryError(outcome)
              /\ kpc' = "raised"
              /\ UNCHANGED <<attempt_number, now>>
         ELSE /\ attempt_number' = attempt_number + 1
              /\ now' = now + wait
              /\ kpc' = "attempt"
              /\ UNCHANGED final
    /\ UNCHANGED <<offRetry, max_attempts, max_delay_seconds, plan, calls, outcome,
                   outcome_timestamp, retry_on, invocations>>

RetryNext ==
    \/ RetryCall
    \/ \E d \in AttemptDurations : Attempt(d)
    \/ \E wait \in 0..MaxWait : Iter(wait)

\* ----------------------------------------- SecurityHeadersMiddleware alone
\* security/middleware.py:26-77: an instance constructed with any arguments
\* and called by the component outside it.

\* Header names a caller may write in custom_headers, in the letter case of
\* _DEFAULT_HEADERS and in other ones.
CustomKeys ==
    {"X-Frame-Options", "x-frame-options", "Cache-Control", "cache-control",
     "Content-Security-Policy", "content-security-policy",
     "Strict-Transport-Security", "strict-transport-security", "X-Custom"}

CustomValues == {"", "SAMEORIGIN"}

\* custom_headers: None (kept as the empty list) or a dict of up to
\* MaxCustom items, no key twice.
CustomHeaderDicts ==
    { d \in UNION {[1..n -> CustomKeys \X CustomValues] : n \in 0..MaxCustom} :
        \A i, j \in 1..Len(d) : i # j => d[i][1] # d[j][1] }

ContentSecurityPolicies == {"default-src 'self'", ""}

StrictTransportSecurities == {"max-age=31536000; includeSubDomains", ""}

\* security/middleware.py:38-63: __init__
SecurityInit(csp, hsts, custom) ==
    /\ content_security_policy = csp
    /\ strict_transport_security = hsts
    /\ custom_headers = custom
    /\ raw_headers = EncodeHeaders(BuildHeaders(csp, hsts, custom))
    /\ mpc = "idle"
    /\ mscope = "none"
    /\ outgoing = <<>>
    /\ incoming = <<>>

SecurityFrame ==
    UNCHANGED <<offSec, content_security_policy, strict_transport_security,
                custom_headers, raw_headers>>

\* security/middleware.py:65-77: __call__ with a scope of type ty.
SecurityCall(ty) ==
    /\ mpc \in {"idle", "returned"}
    /\ mpc' = "app"
    /\ mscope' = ty
    /\ outgoing' = <<>>
    /\ incoming' = <<>>
    /\ SecurityFrame

\* Messages the downstream app may send: the start of a response with
\* headers of its own, a body, a message of another protocol.
DownstreamMessages(ty) ==
    IF ty = "http"
      THEN { StartMsg(200, <<>>),
             StartMsg(404, << <<"content-type", "application/json">> >>),
             StartMsg(200, << <<"cache-control", "max-age=60">> >>),
             BodyMsg(NoBody, FALSE) }
      ELSE { OtherMsg("websocket.accept") }

\* The downstream app sends a message: in an HTTP exchange it goes through
\* send_with_headers (security/middleware.py:70-75), otherwise to the send
\* the instance was given (66-68).
SecuritySend(m) ==
    /\ mpc = "app"
    /\ m \in DownstreamMessages(mscope)
    /\ Len(outgoing) < 2
    /\ m.type = "http.response.start" <=> (mscope = "http" /\ outgoing = <<>>)
    /\ outgoing' = Append(outgoing, IF mscope = "http" THEN SendWithHeaders(m) ELSE m)
    /\ incoming' = Append(incoming, m)
    /\ UNCHANGED <<mpc, mscope>>
    /\ SecurityFrame

\* The downstream app returns.
SecurityReturn ==
    /\ mpc = "app"
    /\ mpc' = "returned"
    /\ UNCHANGED <<mscope, outgoing, incoming>>
    /\ SecurityFrame

SecurityNext ==
    \/ \E ty \in ScopeTypes : SecurityCall(ty)
    \/ \E m \in DownstreamMessages("http") \cup DownstreamMessages("websocket") :
         SecuritySend(m)
    \/ SecurityReturn

\* ------------------------------------------------- get_db per request
\* database/types.py:27-30: every request that depends on get_db runs
\* "async with session_manager.session() as session: yield session"; the
\* requests of one worker interleave at their awaits.

NoDep == [pc |-> "idle", session |-> 0]

DepInit ==
    /\ dep = [r \in Requests |-> NoDep]
    /\ made = 0
    /\ connOf = [s \in 1..MaxSessions |-> 0]

\* The factory hands the same session object to every caller.
C34_MutantNewSession(n) == 1

\* session.py:105: self._sessionmaker() constructs an AsyncSession at every
\* entry; n sessions were constructed before, so this one is session n + 1.
NewSession(n) == n + 1

\* The connections checked out of the pool.
Busy == {connOf[s] : s \in 1..MaxSessions} \ {0}

\* The pool hands out a connection that is not checked out.
Checkout == CHOOSE c \in 1..MaxSessions : c \notin Busy /\ \A d \in 1..(c - 1) : d \in Busy

\* A request holds a session it was yielded and has not yet closed.
Holding(r) == dep[r].pc \in {"yielded", "used", "closing"}

DepFrame == UNCHANGED <<offDep, dbVars>>

\* types.py:29 and session.py:100-107: get_db enters session(), which
\* raises on a manager that is not initialized and otherwise constructs a
\* session and yields it.
GetDbEnter(r) ==
    /\ dep[r].pc = "idle"
    /\ IF NotInitialized
         THEN /\ dep' = [dep EXCEPT ![r].pc = "refused"]
              /\ UNCHANGED made
         ELSE /\ made < MaxSessions
              /\ made' = made + 1
              /\ dep' = [dep EXCEPT ![r] =
                           [pc |-> "yielded", session |-> NewSession(made)]]
    /\ UNCHANGED connOf
    /\ DepFrame

\* types.py:30: the route handler awaits a statement on the session it was
\* yielded; a session that has no connection yet checks one out.
Execute(r) ==
    /\ dep[r].pc = "yielded"
    /\ connOf' = [connOf EXCEPT ![dep[r].session] = IF @ = 0 THEN Checkout ELSE @]
    /\ dep' = [dep EXCEPT ![r].pc = "used"]
    /\ UNCHANGED made
    /\ DepFrame

\* session.py:107-111: the handler is over; commit or rollback is awaited.
ScopeEnd(r) ==
    /\ dep[r].pc \in {"yielded", "used"}
    /\ dep' = [dep EXCEPT ![r].pc = "closing"]
    /\ UNCHANGED <<made, connOf>>
    /\ DepFrame

\* session.py:112-113: session.close() gives the connection back to the
\* pool and the scope is left.
CloseSession(r) ==
    /\ dep[r].pc = "closing"
    /\ connOf' = [connOf EXCEPT ![dep[r].session] = 0]
    /\ dep' = [dep EXCEPT ![r] = [pc |-> "done", session |-> 0]]
    /\ UNCHANGED made
    /\ DepFrame

\* The request is answered; the next one may come.
DepReturn(r) ==
    /\ dep[r].pc \in {"done", "refused"}
    /\ dep' = [dep EXCEPT ![r] = NoDep]
    /\ UNCHANGED <<made, connOf>>
    /\ DepFrame

DepNext ==
    \/ ManagerInit
    \/ \E r \in Requests : GetDbEnter(r)
    \/ \E r \in Requests : Execute(r)
    \/ \E r \in Requests : ScopeEnd(r)
    \/ \E r \in Requests : CloseSession(r)
    \/ \E r \in Requests : DepReturn(r)

\* ------------------------------------------------------------ _client_ip
\* logging/middleware.py:73-90.  Header values and host names are kept as
\* sequences of characters, the empty string as the empty sequence.

ForwardedAlphabet == {"7", ",", " "}

\* Values an X-Forwarded-For header may have.
ForwardedValues == UNION {[1..n -> ForwardedAlphabet] : n \in 0..MaxForwarded}

\* scope["headers"]: no X-Forwarded-For, one, or one after another header.
ForwardedHeaderLists ==
    { <<>> }
      \cup { << <<"x-forwarded-for", v>> >> : v \in ForwardedValues }
      \cup { << <<"host", <<"7">> >>, <<"x-forwarded-for", v>> >> : v \in ForwardedValues }

\* scope.get("client"): None (kept as the empty sequence) or (host, port).
Clients == { <<>>, << <<"9">>, 50000 >> }

RECURSIVE ExtractChars(_, _)
\* logging/middleware.py:73-79: _extract_header
ExtractChars(headers, name) ==
    IF headers = <<>> THEN <<>>
    ELSE IF Head(headers)[1] = name THEN Head(headers)[2]
    ELSE ExtractChars(Tail(headers), name)

\* The value is taken whole.
C40_MutantSplitFirst(v) == v

RECURSIVE SplitFirst(_)
\* logging/middleware.py:86: forwarded.split(",")[0]
SplitFirst(v) ==
    IF v = <<>> \/ Head(v) = "," THEN <<>>
    ELSE << Head(v) >> \o SplitFirst(Tail(v))

RECURSIVE Strip(_)
\* logging/middleware.py:86: str.strip()
Strip(v) ==
    IF v = <<>> THEN <<>>
    ELSE IF Head(v) = " " THEN Strip(Tail(v))
    ELSE IF v[Len(v)] = " " THEN Strip(SubSeq(v, 1, Len(v) - 1))
    ELSE v

\* logging/middleware.py:82-90
ClientIp(sc) ==
    LET forwarded == ExtractChars(sc.headers, "x-forwarded-for") IN
      IF forwarded # <<>> THEN Strip(SplitFirst(forwarded))
      ELSE IF sc.client # <<>> THEN sc.client[1]
      ELSE <<>>

\* An HTTP scope is about to be logged.
IpInit(hs, peer) ==
    /\ xscope = [headers |-> hs, client |-> peer]
    /\ ipc = "new"
    /\ client_ip = <<>>

\* logging/middleware.py:69: client_ip=_client_ip(scope)
ClientIpCall ==
    /\ ipc = "new"
    /\ client_ip' = ClientIp(xscope)
    /\ ipc' = "done"
    /\ UNCHANGED <<offIp, xscope>>

IpNext == ClientIpCall

\* ------------------------------------------------------- specifications

\* main.py:91: create_app registers the one condition _is_db_online.
Init ==
    /\ HttpInit
    /\ DbInit
    /\ HealthInit(<< "_is_db_online" >>)
    /\ ConcInit
    /\ RetryInit(3, 60, [failures |-> 0, error |-> "TransientError"], RetryOn)
    /\ SecurityInit("default-src 'self'", StrictTransportSecurity, <<>>)
    /\ DepInit
    /\ IpInit(<<>>, <<>>)

\* The session manager on its own: no exchange is in progress.
InitDb == Init /\ ~isProduction

\* A health router built from any list of conditions.
InitHealth ==
    /\ HttpInit /\ ~isProduction
    /\ DbInit
    /\ ConcInit
    /\ RetryInit(3, 60, [failures |-> 0, error |-> "TransientError"], RetryOn)
    /\ SecurityInit("default-src 'self'", StrictTransportSecurity, <<>>)
    /\ DepInit
    /\ IpInit(<<>>, <<>>)
    /\ \E cs \in ConditionLists : HealthInit(cs)

SpecHealth == InitHealth /\ [][HealthNext]_vars

\* The readiness endpoint of the application of create_app.
SpecReady == Init /\ [][ReadyNext]_vars

\* The application of create_app with no request received yet.
InitConc == Init /\ ~isProduction

SpecConc == InitConc /\ [][ConcNext]_vars

\* An operation decorated with any attempt cap and time cap, behaving by any
\* plan.
InitRetry ==
    /\ HttpInit /\ ~isProduction
    /\ DbInit
    /\ HealthInit(<< "_is_db_online" >>)
    /\ ConcInit
    /\ \E attempts \in 0..MaxAttempts, delay \in 1..MaxDelay, p \in Plans,
          types \in RetryOnChoices :
         RetryInit(attempts, delay, p, types)
    /\ SecurityInit("default-src 'self'", StrictTransportSecurity, <<>>)
    /\ DepInit
    /\ IpInit(<<>>, <<>>)

\* Every invocation of the operation returns or raises and every sleep ends.
SpecRetry == InitRetry /\ [][RetryNext]_vars /\ WF_vars(RetryNext)

\* A SecurityHeadersMiddleware constructed with any arguments.
InitSecurity ==
    /\ HttpInit /\ ~isProduction
    /\ DbInit
    /\ HealthInit(<< "_is_db_online" >>)
    /\ ConcInit
    /\ RetryInit(3, 60, [failures |-> 0, error |-> "TransientError"], RetryOn)
    /\ \E csp \in ContentSecurityPolicies, hsts \in StrictTransportSecurities,
          custom \in CustomHeaderDicts :
         SecurityInit(csp, hsts, custom)
    /\ DepInit
    /\ IpInit(<<>>, <<>>)

SpecSecurity == InitSecurity /\ [][SecurityNext]_vars

\* The requests of one worker and the session manager of the application.
SpecDep == InitDb /\ [][DepNext]_vars

\* _client_ip on any scope.
InitIp ==
    /\ HttpInit /\ ~isProduction
    /\ DbInit
    /\ HealthInit(<< "_is_db_online" >>)
    /\ ConcInit
    /\ RetryInit(3, 60, [failures |-> 0, error |-> "TransientError"], RetryOn)
    /\ SecurityInit("default-src 'self'", StrictTransportSecurity, <<>>)
    /\ DepInit
    /\ \E hs \in ForwardedHeaderLists, peer \in Clients : IpInit(hs, peer)

SpecIp == InitIp /\ [][IpNext]_vars

SpecDb == InitDb /\ [][DbNext]_vars

SpecHttp == Init /\ [][HttpNext]_vars

\* ------------------------------------------------ session manager claims

RECURSIVE Count(_, _)
\* Number of occurrences of x in the sequence s.
Count(s, x) ==
    IF s = <<>> THEN 0
    ELSE (IF Head(s) = x THEN 1 ELSE 0) + Count(Tail(s), x)

\* The scope of task t has been left after a session was obtained.
ScopeExited(t) ==
    task[t].pc = "done" /\ task[t].op = "session" /\ task[t].exc # "NotInitialized"

\* The scope of task t holds a session that it has not yet left.
ScopeOpen(t) == task[t].pc \in {"body", "commit", "rollback", "close"}

\* C1: on every exit of a session() scope exactly one of commit and rollback
\* has been invoked on the session, and close is invoked after it, however
\* the scope ended (normal end, exception, cancellation, failed commit).
C1_ExactlyOneOfCommitRollbackThenClose ==
    \A t \in Tasks :
        ScopeExited(t) =>
            LET c == task[t].calls IN
            /\ Count(c, "commit") + Count(c, "rollback") = 1
            /\ Len(c) = 2
            /\ c[2] = "close"

\* C2: a body that raises (exception or cancellation) gets rollback and no
\* commit; a body that completes gets commit, and rollback only when that
\* commit failed.
C2_RollbackOnFailureCommitOnSuccess ==
    \A t \in Tasks :
        ScopeExited(t) =>
            LET c == task[t].calls IN
            /\ task[t].body \in {"error", "cancel"} =>
                   Count(c, "rollback") >= 1 /\ Count(c, "commit") = 0
            /\ task[t].body = "ok" =>
                   /\ Count(c, "commit") = 1
                   /\ Count(c, "rollback") >= 1 => task[t].commit = "error"

\* C3: each session is closed exactly once on every scope exit, so the
\* sessions created and not yet closed are exactly those of the open scopes
\* (none once every scope has exited).
C3_ClosedExactlyOnceNoLeak ==
    /\ created - closed = Cardinality({t \in Tasks : ScopeOpen(t)})
    /\ \A t \in Tasks :
          /\ ScopeExited(t) => Count(task[t].calls, "close") = 1
          /\ ScopeOpen(t) => Count(task[t].calls, "close") = 0

\* Several scopes have exited, one of them through a failed commit and the
\* rollback that follows it, and no session is left open.
C3_Witness ==
    /\ created >= 2
    /\ closed = created
    /\ \E t \in Tasks :
          ScopeExited(t) /\ task[t].calls = <<"commit", "rollback", "close">>

\* C4: with no lifecycle call in flight, session(), connect() and the engine
\* property raise the not-initialized error exactly when the manager was
\* never initialized or its most recent completed lifecycle call is close();
\* an acquisition that raises creates no session and changes no manager state.
C4_NotInitializedIffUninitialized ==
    [][\A t \in Tasks :
          (task[t].pc = "idle" /\ task'[t].pc # "idle" /\ disposing = 0) =>
              /\ (task'[t].exc = "NotInitialized")
                     <=> (lastLifecycle \in {"none", "close"})
              /\ (task'[t].exc = "NotInitialized") =>
                     /\ task'[t].pc = "done"
                     /\ UNCHANGED <<engine, sessionmaker, engines, disposed,
                                    disposing, lastLifecycle, created, closed>>
              /\ (task'[t].exc # "NotInitialized" /\ task'[t].op = "session") =>
                     created' = created + 1]_vars

\* An acquisition was refused after init() and then close() had completed.
C4_Witness ==
    /\ engines >= 1
    /\ lastLifecycle = "close"
    /\ disposing = 0
    /\ \E t \in Tasks : task[t].pc = "done" /\ task[t].exc = "NotInitialized"

\* ---------------------------------------------------- error pipeline claims

\* Positions in the sequence s of the messages of type ty.
Positions(s, ty) == {i \in 1..Len(s) : s[i].type = ty}

\* Number of http.response.start messages the server has been handed.
Starts == Cardinality(Positions(sent, "http.response.start"))

\* Key set of the uniform error body.
ErrorKeys == {"detail", "status_code", "request_id"}

\* The exchange in progress is an HTTP exchange that has left the stack.
HttpDone == hpc = "end" /\ scope.type = "http"

\* C5: an exception raised by a route handler that is no domain, routing or
\* validation error gives the client status 500 and the body detail
\* "Internal server error"; status and body depend on the request alone,
\* never on the type or the message of the exception.
C5_UnclassifiedGivesFixed500 ==
    (HttpDone /\ app.kind = "unclassified") =>
        /\ Len(sent) = 2
        /\ sent[1].type = "http.response.start"
        /\ sent[1].status = 500
        /\ sent[2].type = "http.response.body"
        /\ sent[2].body =
             [detail |-> "Internal server error",
              status_code |-> 500,
              request_id |-> ExtractHeader(scope.headers, "x-request-id")]
        /\ sent[2].body.detail \notin {app.raised.type, app.raised.msg}

\* A handler raised an exception with a telling message and the exchange
\* has ended with a response.
C5_Witness ==
    /\ HttpDone
    /\ app.kind = "unclassified"
    /\ app.raised = Unclassified("KeyError", "db password is hunter2")
    /\ sent # <<>>

\* C6: for every domain error raised by a route handler, however it was
\* constructed, the response status is the instance's status_code and the
\* body detail is the instance's detail.
C6_DomainStatusAndDetail ==
    (HttpDone /\ app.kind = "domain") =>
        /\ Len(sent) = 2
        /\ sent[1].status = app.dom.status_code
        /\ sent[2].body.detail = app.dom.detail

\* The request failed with one of the four failure classes: a domain error,
\* a routing error, a request-validation error, or an unclassified exception
\* (raised by the handler, or by a streamed response under way).
Failed ==
    app.kind \in {"domain", "routing", "validation", "unclassified", "stream_failed"}

\* C7: every failing request receives exactly one JSON error body, with the
\* keys detail, status_code and request_id and nothing else, whose
\* status_code equals the HTTP status of the response.
C7_UniformErrorBody ==
    (HttpDone /\ Failed) =>
        LET errs == {i \in Positions(sent, "http.response.body") :
                        DOMAIN sent[i].body = ErrorKeys}
        IN /\ Starts = 1
           /\ Cardinality(errs) = 1
           /\ \A i \in errs, j \in Positions(sent, "http.response.start") :
                  sent[i].body.status_code = sent[j].status

\* C8: an exception raised by a middleware component (correlation id,
\* security headers, access log) is intercepted by the catch-all: it does
\* not leave the stack and the client gets the uniform 500 response.
C8_MiddlewareFaultIntercepted ==
    (HttpDone /\ fault # "none") =>
        /\ escaped = NoExc
        /\ \E i \in Positions(sent, "http.response.body") :
              /\ DOMAIN sent[i].body = ErrorKeys
              /\ sent[i].body.detail = "Internal server error"
              /\ sent[i].body.status_code = 500

\* C9: no HTTP exchange is handed a second http.response.start, a streamed
\* response that fails after it has started included.
C9_OneResponseStart ==
    scope.type = "http" => Starts <= 1

\* State part of C10: outside HTTP no wrapper replaces send, every message
\* arrives as the application sent it, no access-log record is written, each
\* middleware has called its downstream app once, and an exception raised
\* downstream arrives at the server.  (The correlation middleware, which is
\* outside the three, writes its identifier into the headers of a websocket
\* scope before they are called.)
C10_PassThroughState ==
    scope.type \in {"websocket", "lifespan"} =>
        /\ wrappers = {}
        /\ sent = emitted
        /\ accessLog = <<>>
        /\ status_code = 0
        /\ fault = "none"
        /\ \A l \in {"sec", "log", "catch"} : invoked[l] <= 1
        /\ hpc \in {"app", "catch_ret", "log_ret", "end"} =>
               \A l \in {"sec", "log", "catch"} : invoked[l] = 1
        /\ hpc = "log_ret" => exc = app.raised
        /\ hpc = "end" => escaped = app.raised

\* C10: for a websocket or lifespan scope the catch-all, the security
\* headers and the access log call the downstream app exactly once with
\* what they were given, add no header, write no access-log record, leave
\* the log context as it is and let a downstream exception pass.
C10_NonHttpPassThrough ==
    /\ []C10_PassThroughState
    /\ [][scope'.type \in {"websocket", "lifespan"} => ctx' = ctx /\ (scope.type # "none" /\ hpc \notin {"end", "corr"} => scope' = scope)]_vars

\* A websocket exchange whose application raised has left the stack, in a
\* context that an earlier HTTP exchange had bound a request id in.
C10_Witness ==
    /\ hpc = "end"
    /\ scope.type = "websocket"
    /\ escaped = Unclassified("RuntimeError", "boom")
    /\ ctx # <<>>
    /\ sent # <<>>

\* ------------------------------------------------- middleware chain claims

\* The header set create_app configures: the six defaults, the default
\* Content-Security-Policy, and Strict-Transport-Security in production.
SecurityHeaderSet ==
    { <<"x-frame-options", "DENY">>,
      <<"x-content-type-options", "nosniff">>,
      <<"referrer-policy", "strict-origin-when-cross-origin">>,
      <<"permissions-policy", "geolocation=(), camera=(), microphone=()">>,
      <<"x-xss-protection", "0">>,
      <<"cache-control", "no-store">>,
      <<"content-security-policy", "default-src 'self'">> }
      \cup (IF isProduction
              THEN { <<"strict-transport-security",
                       "max-age=31536000; includeSubDomains">> }
              ELSE {})

\* The headers of the message m, as a set.
HeadersOf(m) == {m.headers[j] : j \in 1..Len(m.headers)}

C16_BindingClearedAtEnd ==
    (HttpDone /\ invoked["log"] = 1) => "request_id" \notin DOMAIN ctx

\* C17: the request_id of every log line of an HTTP exchange is the
\* correlation identifier of the exchange, which is the inbound X-Request-Id
\* value when the client sent one and a generated identifier otherwise, and
\* is never empty.
C17_LoggedIdIsCorrelationId ==
    scope.type = "http" =>
        \A i \in 1..Len(log) :
            /\ log[i].request_id = correlation_id
            /\ log[i].request_id \notin {"", None}
            /\ ExtractHeader(inbound, "x-request-id") # "" =>
                   log[i].request_id = ExtractHeader(inbound, "x-request-id")
            /\ ExtractHeader(inbound, "x-request-id") = "" =>
                   \E n \in 0..1 : log[i].request_id = Generator(n)

ReadinessDone == rpc = "done"

\* Every condition called in this request returned true.
AllReturnedTrue == \A i \in 1..Len(ran) : ran[i].outcome = "true"

\* C12: whatever the list of conditions and whatever each of them does, the
\* answer is "ready" with status 200 if and only if every registered
\* condition returned true (none registered included), and "not_ready" with
\* status 503 otherwise.
C12_ReadyIffAllTrue ==
    ReadinessDone =>
        /\ Len(ran) = Len(conditions)
        /\ AllReturnedTrue =>
               response.status = 200 /\ response.body.status = "ready"
        /\ ~AllReturnedTrue =>
               response.status = 503 /\ response.body.status = "not_ready"

C14_OneEntryPerCondition ==
    ReadinessDone =>
        /\ Cardinality(DOMAIN response.body.checks) = Len(conditions)
        /\ \A i \in 1..Len(conditions) :
               /\ conditions[i] \in DOMAIN response.body.checks
               /\ response.body.checks[conditions[i]] = (ran[i].outcome = "true")

\* ----------------------------------------------------- concurrency claims

InRetryCategory == \E c \in retry_on : c \in Mro(plan.error)

\* The wrapped call has returned or raised.
RetryDone == kpc \in {"returned", "raised"}

\* The call was ended by the time cap: the last invocation failed at a
\* moment when max_delay_seconds had gone by since the call began.
TimeCapReached ==
    kpc = "raised" /\ outcome_timestamp >= max_delay_seconds

\* The call returned the result of its last invocation.
ReturnedLast ==
    /\ kpc = "returned"
    /\ final = [failed |-> FALSE, type |-> "ok", invocation |-> calls, wrapped |-> FALSE]

\* C19, as stated: an operation that fails with a retryable failure on its
\* first k < max_attempts invocations and then succeeds is invoked exactly
\* k + 1 times and the call returns the successful result.
C19_FailsKThenSucceeds ==
    (RetryDone /\ InRetryCategory /\ plan.failures < max_attempts) =>
        calls = plan.failures + 1 /\ ReturnedLast

\* C19, amended: the same, provided the time cap is not reached first, that
\* is, provided less than max_delay_seconds have gone by since the call
\* began whenever one of the k failures is evaluated.
C19_FailsKThenSucceedsWithinTimeCap ==
    (RetryDone /\ InRetryCategory /\ plan.failures < max_attempts
       /\ ~TimeCapReached) =>
        calls = plan.failures + 1 /\ ReturnedLast

\* An operation that failed twice with a retryable failure has succeeded at
\* its third invocation, after more than no time.
C19_Witness ==
    /\ kpc = "returned"
    /\ plan = [failures |-> 2, error |-> "TransientError"]
    /\ calls = 3
    /\ now > 0

\* The operation fails at every invocation with a retryable failure.
AlwaysFails == InRetryCategory /\ plan.failures > MaxAttempts

\* State part of C20: when the call has ended, max_attempts >= 1 and the time
\* cap was not reached before the attempt cap, the operation was invoked
\* max_attempts times and the caller got the exception of the last
\* invocation itself, not wrapped.
C20_RaisesLastAfterMaxAttempts ==
    (RetryDone /\ AlwaysFails /\ max_attempts >= 1
       /\ ~(TimeCapReached /\ calls < max_attempts)) =>
        /\ calls = max_attempts
        /\ kpc = "raised"
        /\ final = [failed |-> TRUE, type |-> plan.error,
                    invocation |-> max_attempts, wrapped |-> FALSE]

\* C20: a call of an operation that fails at every invocation with a
\* retryable failure ends; unless the time cap is reached first it ends
\* after exactly max_attempts invocations (max_attempts >= 1), raising the
\* exception of the last invocation and no wrapper.
C20_AlwaysFailingTerminates ==
    /\ []C20_RaisesLastAfterMaxAttempts
    /\ (kpc = "attempt" /\ AlwaysFails) ~> (kpc = "raised")

\* An always failing operation was given up after three invocations, within
\* the time cap.
C20_Witness ==
    /\ kpc = "raised"
    /\ AlwaysFails
    /\ max_attempts = 3
    /\ calls = 3
    /\ ~TimeCapReached

\* C21: only failures of the designated retry category (the types passed as
\* retry_on, TransientError by default, and their subtypes) trigger a retry:
\* an operation invoked a second time has failed with one of them, and an
\* operation failing with anything else is invoked exactly once, the caller
\* getting that very failure, not wrapped.
C21_OnlyRetryCategoryIsRetried ==
    /\ calls >= 2 => InRetryCategory
    /\ (RetryDone /\ plan.failures >= 1 /\ ~InRetryCategory) =>
          /\ calls = 1
          /\ kpc = "raised"
          /\ final = [failed |-> TRUE, type |-> plan.error, invocation |-> 1,
                      wrapped |-> FALSE]

\* With retry_on = ConnectionError, a ValueError has been raised to the
\* caller after one invocation although three attempts were allowed.
C21_Witness ==
    /\ kpc = "raised"
    /\ retry_on = {"ConnectionError"}
    /\ plan = [failures |-> 2, error |-> "ValueError"]
    /\ max_attempts = 3
    /\ calls = 1
    /\ final.type = "ValueError"

\* C22: once the time elapsed since the first invocation began has reached
\* max_delay_seconds, no further invocation of the operation is started.
C22_NoInvocationAfterTimeCap ==
    \A i \in 2..Len(invocations) :
        invocations[i] - invocations[1] < max_delay_seconds

\* ------------------------------------------- error pipeline claims, part two

\* The default status of each domain failure kind.
C23_DefaultStatus(kind) ==
    CASE kind = "DomainError" -> 500
      [] kind = "NotFoundError" -> 404
      [] kind = "ConflictError" -> 409
      [] kind = "ValidationError" -> 422
      [] kind = "PermissionDeniedError" -> 403
      [] kind = "AuthenticationError" -> 401

\* The default detail of a domain failure constructed with the first
\* positional argument pos: NotFoundError names the resource in it.
C23_DefaultDetail(kind, pos) ==
    IF kind = "NotFoundError"
      THEN (IF pos = None THEN "Resource" ELSE pos) \o " not found"
      ELSE "An unexpected error occurred."

\* The detail a construction overrides the default with, None when it gives
\* none: the keyword detail, or the first positional argument of the kinds
\* whose first parameter is the detail.
C23_DetailOverride(kind, pos, kw) ==
    IF "detail" \in DOMAIN kw THEN kw["detail"]
    ELSE IF kind # "NotFoundError" THEN pos
    ELSE None

\* C23: a domain failure constructed without overrides carries the default
\* status and the default detail of its kind, and one constructed with a
\* status or a detail of its own carries exactly that status and that detail,
\* whatever its kind.
C23_DefaultsAndOverrides ==
    app.kind = "domain" =>
        LET kind == app.dom.kind
            pos == app.args.pos
            kw == app.args.kw
        IN /\ app.dom.status_code =
                IF "status_code" \in DOMAIN kw THEN kw["status_code"]
                ELSE C23_DefaultStatus(kind)
           /\ app.dom.detail =
                IF C23_DetailOverride(kind, pos, kw) # None
                  THEN C23_DetailOverride(kind, pos, kw)
                  ELSE C23_DefaultDetail(kind, pos)

\* The keywords of a construction that are parameters of the constructor and
\* no context: status_code and detail, and none for NotFoundError.
OwnKeywords(kind) == IF kind = "NotFoundError" THEN {} ELSE {"status_code", "detail"}

\* The keyword arguments kw without the context.
ContextFree(kind, kw) == [k \in (DOMAIN kw) \cap OwnKeywords(kind) |-> kw[k]]

\* C24: the keyword context of a domain failure is kept in its extra and has
\* no effect on the response: status and body are those of the same failure
\* constructed without context, and no value of extra is in the body.
C24_ContextHasNoEffect ==
    (HttpDone /\ fault = "none" /\ app.kind = "domain") =>
        LET kind == app.dom.kind
            kw == app.args.kw
            bare == NewDomainError(kind, app.args.pos, ContextFree(kind, kw))
        IN /\ DOMAIN app.dom.extra = (DOMAIN kw) \ OwnKeywords(kind)
           /\ \A k \in DOMAIN app.dom.extra : app.dom.extra[k] = kw[k]
           /\ Len(sent) = 2
           /\ sent[1].type = "http.response.start"
           /\ sent[1].status = bare.status_code
           /\ sent[2].type = "http.response.body"
           /\ sent[2].body =
                [detail |-> bare.detail,
                 status_code |-> bare.status_code,
                 request_id |-> ExtractHeader(scope.headers, "x-request-id")]
           /\ \A k \in DOMAIN app.dom.extra :
                  IF k = "status_code"
                    THEN app.dom.extra[k] # sent[2].body.status_code
                    ELSE app.dom.extra[k] \notin
                           {sent[2].body.detail, sent[2].body.request_id}

\* The catch-all has turned an exception into a response in the exchange.
CatchAllHandled ==
    \/ app.kind \in {"unclassified", "stream_failed"}
    \/ app.kind = "domain" /\ LogCallCollides(app.dom)

\* The record of the unclassified exception was written.
UnhandledLogged == \E i \in 1..Len(log) : log[i].event = "unhandled_error"

\* C25: when the logger call of the catch-all fails, that failure is
\* swallowed: no exception leaves the stack and the last messages sent are
\* the uniform 500 response, as when the logger call succeeds.
C25_LogFailureSwallowed ==
    (HttpDone /\ fault = "none" /\ CatchAllHandled /\ ~UnhandledLogged) =>
        /\ escaped = NoExc
        /\ Len(sent) >= 2
        /\ sent[Len(sent) - 1].type = "http.response.start"
        /\ sent[Len(sent) - 1].status = 500
        /\ sent[Len(sent)].type = "http.response.body"
        /\ sent[Len(sent)].body =
             [detail |-> "Internal server error",
              status_code |-> 500,
              request_id |-> ExtractHeader(scope.headers, "x-request-id")]

\* A handler raised KeyError, the logger call of the catch-all failed, and
\* the client has the 500 response.
C25_Witness ==
    /\ HttpDone
    /\ fault = "none"
    /\ app.kind = "unclassified"
    /\ app.raised.type = "KeyError"
    /\ ~UnhandledLogged
    /\ Len(sent) = 2
    /\ sent[1].status = 500

\* C26: a request-validation failure gives status 422 and the body detail
\* "Request validation failed", whatever the per-field errors are, and none
\* of the per-field errors is in the body.
C26_ValidationGivesFixed422 ==
    (HttpDone /\ fault = "none" /\ app.kind = "validation") =>
        /\ Len(sent) = 2
        /\ sent[1].type = "http.response.start"
        /\ sent[1].status = 422
        /\ sent[2].type = "http.response.body"
        /\ sent[2].body =
             [detail |-> "Request validation failed",
              status_code |-> 422,
              request_id |-> ExtractHeader(scope.headers, "x-request-id")]
        /\ \A i \in 1..Len(app.errors) :
              app.errors[i] \notin {sent[2].body.detail, sent[2].body.request_id}

\* A request with two per-field errors was answered 422.
C26_Witness ==
    /\ HttpDone
    /\ fault = "none"
    /\ app.kind = "validation"
    /\ Len(app.errors) = 2
    /\ Len(sent) = 2
    /\ sent[1].status = 422

\* C27: the request_id of every error body is the value of the X-Request-Id
\* header the request came in with, "" when it came in with none.
C27_BodyRequestIdIsInbound ==
    HttpDone =>
        \A i \in Positions(sent, "http.response.body") :
            DOMAIN sent[i].body = ErrorKeys =>
                sent[i].body.request_id = ExtractHeader(inbound, "x-request-id")

\* C30: an HTTP exchange in which no middleware component failed has exactly
\* one access-log record when it has ended, and the status_code of the record
\* is the status of the http.response.start sent in the exchange, 500 when
\* none was sent.
C30_OneAccessLogRecord ==
    (HttpDone /\ fault = "none") =>
        /\ Len(accessLog) = 1
        /\ Starts = 0 => accessLog[1].status_code = 500
        /\ \A j \in Positions(sent, "http.response.start") :
              accessLog[1].status_code = sent[j].status

\* ------------------------------------------------ security header claims

\* Names of the security set as they go on the wire.
SecuritySetNames ==
    {"x-frame-options", "x-content-type-options", "referrer-policy",
     "permissions-policy", "x-xss-protection", "cache-control",
     "content-security-policy", "strict-transport-security"}

\* The headers called name in the header list hs, in order.
Named(hs, name) == SelectSeq(hs, LAMBDA h : h[1] = name)

\* C28: for every header of the security set, a custom_headers entry for it,
\* in whatever letter case its key is written, decides what every response
\* carries: with a non-empty value that header once, with exactly that value;
\* with an empty value no such header; and a header no entry mentions is as
\* it is without custom_headers.  (Headers the downstream app set under the
\* same name are another matter and are left out.)
C28_CustomHeadersOverrideOrRemove ==
    mscope = "http" =>
        \A i \in Positions(outgoing, "http.response.start") :
          \A name \in {n \in SecuritySetNames : Named(incoming[i].headers, n) = <<>>} :
            LET got == Named(outgoing[i].headers, name)
                mentions == {j \in 1..Len(custom_headers) :
                               Lower(custom_headers[j][1]) = name}
            IN IF mentions = {}
                 THEN got = Named(EncodeHeaders(BuildHeaders(content_security_policy,
                                     strict_transport_security, <<>>)), name)
                 ELSE \A j \in mentions :
                        IF custom_headers[j][2] # ""
                          THEN got = << <<name, custom_headers[j][2]>> >>
                          ELSE got = <<>>

\* C29: a response start carries Strict-Transport-Security only when the
\* application runs in production and the exchange is served over TLS.
C29_HstsOnlyOverTlsInProduction ==
    scope.type = "http" =>
        \A i \in Positions(sent, "http.response.start") :
            Named(sent[i].headers, "strict-transport-security") # <<>> =>
                isProduction /\ scope.scheme = "https"

\* ------------------------------------- session manager claims, part two

C33_AtMostOneLivePool ==
    Cardinality((1..engines) \ disposed) <= 1

\* C36: once close() has been invoked and while it is suspended awaiting
\* the disposal of the pool, an entry into session() or connect() fails with
\* the not-initialized error.
C36_NothingFromPoolBeingDisposed ==
    [][\A t \in Tasks :
          (task[t].pc = "idle" /\ task'[t].pc # "idle"
             /\ task'[t].op \in {"session", "connect"} /\ disposing # 0) =>
              task'[t].exc = "NotInitialized"]_vars

\* C37: a close() that completes resets only the pool it disposed: when no
\* close() is in flight, the newest pool, unless it was disposed, is the pool
\* the manager holds.
C37_NewerPoolSurvivesClose ==
    (disposing = 0 /\ engines >= 1 /\ engines \notin disposed) =>
        engine = engines /\ sessionmaker = engines

\* C34: under every interleaving of the requests, every open scope holds a
\* session the factory made for it, and no two scopes that are open at the
\* same time hold the same session or, once they have checked one out, the
\* same connection.
C34_NoSharedSession ==
    \A r1 \in Requests :
        Holding(r1) =>
            /\ dep[r1].session \in 1..made
            /\ \A r2 \in Requests \ {r1} :
                  Holding(r2) =>
                      /\ dep[r1].session # dep[r2].session
                      /\ connOf[dep[r1].session] # 0 =>
                             connOf[dep[r1].session] # connOf[dep[r2].session]

\* Two requests are inside their scopes at once, each with a connection.
C34_Witness ==
    \E r1, r2 \in Requests :
        /\ r1 # r2
        /\ dep[r1].pc = "used" /\ dep[r2].pc = "used"
        /\ connOf[dep[r1].session] # 0 /\ connOf[dep[r2].session] # 0

\* ------------------------------------------------- composition order

\* The wrappers from the outermost to the innermost, as the claim lists them.
C31_Order == << "corr", "sec", "log", "catch" >>

\* C31: in every exchange a wrapper is entered only when every wrapper
\* outside it has been entered and no wrapper inside it has; the typed
\* handlers and the router act only when all four have been entered; and on
\* the way back control goes from the routed application to the catch-all,
\* from there to the access log and from there out of the stack (security
\* headers and correlation binding have no code on the way back).
C31_WrappersInOrder ==
    [][/\ \A i \in 1..Len(C31_Order) :
             invoked'[C31_Order[i]] > invoked[C31_Order[i]] =>
                 /\ \A j \in 1..(i - 1) : invoked[C31_Order[j]] = 1
                 /\ \A j \in i..Len(C31_Order) : invoked[C31_Order[j]] = 0
       /\ app' # app /\ app'.kind # "none" =>
             \A l \in Layers : invoked[l] = 1
       /\ hpc \in {"app", "streaming"} /\ hpc' # hpc =>
             hpc' \in {"streaming", "catch_ret"}
       /\ hpc = "catch_ret" /\ hpc' # hpc => hpc' = "log_ret"
       /\ hpc = "log_ret" /\ hpc' # hpc => hpc' = "end"
       /\ hpc' = "log_ret" /\ hpc' # hpc => hpc = "catch_ret"
       /\ hpc' = "catch_ret" /\ hpc' # hpc => hpc \in {"app", "streaming"}]_vars

\* An HTTP exchange went through all four wrappers and back, and its
\* access-log record was written.
C31_Witness ==
    /\ HttpDone
    /\ scope.type = "http"
    /\ \A l \in Layers : invoked[l] = 1
    /\ fault = "none"
    /\ Len(accessLog) = 1
    /\ sent # <<>>

\* ------------------------------------------------ the send wrappers

\* The sequence pre is the beginning of the sequence seq.
C35_Prefix(pre, seq) ==
    Len(pre) <= Len(seq) /\ SubSeq(seq, 1, Len(pre)) = pre

\* C35: the messages the server has received are the messages sent inside
\* the access log and the security headers middleware, one for one and in
\* the same order; a message other than http.response.start is unchanged,
\* and an http.response.start has its status unchanged and its header list
\* only extended: the headers it had come first, as they were.
C35_MessagesForwardedUnchanged ==
    /\ Len(sent) = Len(emitted)
    /\ \A i \in 1..Len(emitted) :
          IF emitted[i].type = "http.response.start"
            THEN /\ sent[i].type = "http.response.start"
                 /\ sent[i].status = emitted[i].status
                 /\ sent[i].body = emitted[i].body
                 /\ sent[i].more = emitted[i].more
                 /\ C35_Prefix(emitted[i].headers, sent[i].headers)
            ELSE sent[i] = emitted[i]

\* A streamed response went through both wrappers: its start, a chunk and
\* the closing body message.
C35_Witness ==
    /\ HttpDone
    /\ wrappers = {"sec", "log"}
    /\ app.kind = "stream"
    /\ Len(sent) = 3
    /\ Len(sent[1].headers) > Len(emitted[1].headers)

\* C39: every http.response.start that leaves SecurityHeadersMiddleware has
\* each header of the configured set exactly once, whatever headers the
\* downstream handler set itself.
C39_NoDuplicateSecurityHeader ==
    mscope = "http" =>
        \A i \in Positions(outgoing, "http.response.start") :
            \A j \in 1..Len(raw_headers) :
                Len(Named(outgoing[i].headers, raw_headers[j][1])) = 1

\* ------------------------------------- readiness without a database

\* C38: a turn of the readiness loop that runs the database condition while
\* the session manager is uninitialized does not leave the handler with an
\* exception: it records the condition as false; and the answer to a
\* request with a condition recorded as false is 503 with status
\* "not_ready" and the recorded checks.
C38_UninitializedIsNotReady ==
    [][/\ (rpc = "loop" /\ ran' # ran /\ NotInitialized) =>
             /\ rpc' = "loop"
             /\ "_is_db_online" \in DOMAIN results'
             /\ results'["_is_db_online"] = FALSE
       /\ (rpc = "loop" /\ rpc' = "done" /\ ~Healthy(results)) =>
             /\ response'.status = 503
             /\ response'.body.status = "not_ready"
             /\ response'.body.checks = results]_vars

\* Before the first init() a readiness request was answered 503 with the
\* database condition false.
C38_Witness ==
    /\ engines = 0
    /\ rpc = "done"
    /\ response.status = 503
    /\ response.body.status = "not_ready"
    /\ response.body.checks = [n \in {"_is_db_online"} |-> FALSE]

\* ------------------------------------------------------ client address

\* The scope has an X-Forwarded-For header.
C40_Present ==
    \E i \in 1..Len(xscope.headers) : xscope.headers[i][1] = "x-forwarded-for"

\* The value of the first X-Forwarded-For header of the scope.
C40_Value ==
    LET at == {i \in 1..Len(xscope.headers) : xscope.headers[i][1] = "x-forwarded-for"}
    IN xscope.headers[CHOOSE i \in at : \A k \in at : i <= k][2]

\* What stands before the first comma of v.
C40_FirstEntry(v) ==
    LET commas == {k \in 1..Len(v) : v[k] = ","} IN
      IF commas = {} THEN v
      ELSE SubSeq(v, 1, (CHOOSE k \in commas : \A c \in commas : k <= c) - 1)

\* e without the blanks at its ends.
C40_Trimmed(e) ==
    LET solid == {k \in 1..Len(e) : e[k] # " "} IN
      IF solid = {} THEN <<>>
      ELSE SubSeq(e, CHOOSE k \in solid : \A c \in solid : k <= c,
                     CHOOSE k \in solid : \A c \in solid : c <= k)

\* The host of the socket peer, the empty string when there is none.
C40_PeerHost == IF xscope.client # <<>> THEN xscope.client[1] ELSE <<>>

\* C40 as stated: the client address is the first comma-separated entry of
\* X-Forwarded-For, trimmed, whenever the scope has that header, otherwise
\* the host of the socket peer, otherwise the empty string.
C40_ForwardedWheneverPresent ==
    ipc = "done" =>
        client_ip = IF C40_Present
                      THEN C40_Trimmed(C40_FirstEntry(C40_Value))
                      ELSE C40_PeerHost

\* C40: the client address is the first comma-separated entry of
\* X-Forwarded-For, trimmed, whenever the scope has that header with a value
\* that is not empty; otherwise the host of the socket peer, otherwise the
\* empty string.
C40_ForwardedWhenNotEmpty ==
    ipc = "done" =>
        client_ip = IF C40_Present /\ C40_Value # <<>>
                      THEN C40_Trimmed(C40_FirstEntry(C40_Value))
                      ELSE C40_PeerHost

\* A scope with a peer and an X-Forwarded-For of two entries, the first
\* with a blank before it: the address is the first entry.
C40_Witness ==
    /\ ipc = "done"
    /\ xscope.client # <<>>
    /\ C40_Present
    /\ C40_Value = << " ", "7", ",", "7" >>
    /\ client_ip = << "7" >>

====
